---------------------------- MODULE Spec2Model ----------------------------
(***************************************************************************)
(* Synthetic influencer-marketing data generator                           *)
(* (src/src/data_generator.py, src/src/distributions.py, src/src/config.py)*)
(*                                                                         *)
(* Specifications of this module:                                          *)
(*   Spec      SyntheticDataGenerator.generate_all: the five table         *)
(*             generators run in order, one action per loop iteration,     *)
(*             every np.random draw a nondeterministic choice;             *)
(*   SpecAttr  one call of the pure function generate_attribution_weights  *)
(*             on an input drawn in Init;                                  *)
(*   the further specifications, each introduced where it is defined, run  *)
(*   parts of the program with the columns, failures or repeated runs that *)
(*   Spec leaves out.                                                      *)
(*                                                                         *)
(* Representation.  A Python float produced by the weighting function is   *)
(* an exact fraction <<num, den>> in lowest terms (the double differs from *)
(* it by rounding in the 16th digit).  A "%Y-%m-%d" string is the tuple    *)
(* <<year, month, day>>; a datetime is a day ordinal counted from          *)
(* 2023-01-01.  None is the empty tuple; str(uuid4()) is <<k>> for the     *)
(* k-th identifier issued.  round(x, 3) values are integers in thousandths.*)
(***************************************************************************)
EXTENDS Integers, Sequences, FiniteSets, TLC

VARIABLES
    pc,               \* position inside generate_all
    rows,             \* the list a generator is appending to (brands, posts, ...)
    brands_df,        \* self.brands_df
    influencers_df,   \* self.influencers_df
    posts_df,         \* self.posts_df
    conversions_df,   \* self.conversions_df
    touchpoints_df,   \* self.touchpoints_df
    saved,            \* CSV files written under RAW_DATA_DIR
    uuids,            \* number of uuid4() identifiers issued so far
    attr_pc,          \* position of the generate_attribution_weights call
    n_touchpoints,    \* its argument n_touchpoints
    model,            \* its argument model
    weights,          \* its return value
    config,           \* the settings of config.py a run reads
    error,            \* the exception that ended the run, if any
    np_random,        \* the seeded global np.random generator
    outputs           \* what each completed run has produced, in order

gen_vars == <<pc, rows, brands_df, influencers_df, posts_df, conversions_df,
              touchpoints_df, saved, uuids>>
attr_vars == <<attr_pc, n_touchpoints, model, weights>>
run_vars == <<config, error, np_random, outputs>>
vars == <<pc, rows, brands_df, influencers_df, posts_df, conversions_df,
          touchpoints_df, saved, uuids, attr_pc, n_touchpoints, model, weights,
          config, error, np_random, outputs>>

None == << >>

----------------------------------------------------------------------------
(* Bounds of the model *)

\* largest n_touchpoints handed to generate_attribution_weights
MaxTouchpoints == 15
\* table sizes (config.N_BRANDS ... config.N_TOUCHPOINTS, scaled down)
N_BRANDS == 1
N_INFLUENCERS == 1
N_POSTS == 1
N_CONVERSIONS == 1
N_TOUCHPOINTS == 1

----------------------------------------------------------------------------
(* Python list and float helpers used by generate_attribution_weights *)

RECURSIVE GCD(_, _)
GCD(a, b) == IF b = 0 THEN a ELSE GCD(b, a % b)

\* the float a / b
Div(a, b) == LET g == GCD(a, b) IN IF a = 0 THEN <<0, 1>> ELSE <<a \div g, b \div g>>

\* the float x + y
Add(x, y) ==
    LET g == GCD(x[2], y[2])
    IN  Div(x[1] * (y[2] \div g) + y[1] * (x[2] \div g), (x[2] \div g) * y[2])

\* the float x / k for an int k
DivInt(x, k) == Div(x[1], x[2] * k)

\* [x] * k
RECURSIVE Repeat(_, _)
Repeat(x, k) == IF k <= 0 THEN << >> ELSE <<x>> \o Repeat(x, k - 1)

\* sum(xs) of a list of ints
RECURSIVE SumInts(_)
SumInts(xs) == IF xs = << >> THEN 0 ELSE Head(xs) + SumInts(Tail(xs))

\* sum(xs) of a list of floats
RECURSIVE SumFloats(_)
SumFloats(xs) == IF xs = << >> THEN <<0, 1>> ELSE Add(Head(xs), SumFloats(Tail(xs)))

RECURSIVE Pow2(_)
Pow2(i) == IF i = 0 THEN 1 ELSE 2 * Pow2(i - 1)

Less(x, y) == x[1] * y[2] < y[1] * x[2]

----------------------------------------------------------------------------
(* distributions.generate_attribution_weights, branch by branch *)

FirstTouchWeights(n) == <<Div(1, 1)>> \o Repeat(Div(0, 1), n - 1)

\* mutant: the single 1.0 placed first instead of last
LastTouchWeightsAtFront(n) == <<Div(1, 1)>> \o Repeat(Div(0, 1), n - 1)

LastTouchWeights(n) == Repeat(Div(0, 1), n - 1) \o <<Div(1, 1)>>

\* mutant: divides by one too many
LinearWeightsOffByOne(n) == Repeat(Div(1, n + 1), n)

LinearWeights(n) == Repeat(Div(1, n), n)

\* mutant: the exponent runs backwards, the oldest touchpoint weighs most
TimeDecayWeightsOldestHeaviest(n) ==
    LET raw_weights == [i \in 1..n |-> Pow2(n - i)]
        total == SumInts(raw_weights)
    IN  [i \in 1..n |-> Div(raw_weights[i], total)]

TimeDecayWeights(n) ==
    LET raw_weights == [i \in 1..n |-> Pow2(i - 1)]
        total == SumInts(raw_weights)
    IN  [i \in 1..n |-> Div(raw_weights[i], total)]

\* mutant: the middle 20% is given to every middle position instead of split
PositionBasedWeightsUnsplitMiddle(n) ==
    IF n = 1 THEN <<Div(1, 1)>>
    ELSE IF n = 2 THEN <<Div(1, 2), Div(1, 2)>>
    ELSE <<Div(2, 5)>> \o Repeat(Div(1, 5), n - 2) \o <<Div(2, 5)>>

\* mutant: no special case for two touchpoints, each end keeps its 40%
PositionBasedWeightsNoPairCase(n) ==
    IF n = 1 THEN <<Div(1, 1)>>
    ELSE LET middle_weight == DivInt(Div(1, 5), n - 2)
         IN  <<Div(2, 5)>> \o Repeat(middle_weight, n - 2) \o <<Div(2, 5)>>

PositionBasedWeights(n) ==
    IF n = 1 THEN <<Div(1, 1)>>
    ELSE IF n = 2 THEN <<Div(1, 2), Div(1, 2)>>
    ELSE LET middle_weight == DivInt(Div(1, 5), n - 2)
         IN  <<Div(2, 5)>> \o Repeat(middle_weight, n - 2) \o <<Div(2, 5)>>

\* mutant: an unknown model name yields no weights at all
generate_attribution_weights_strict(n, m) ==
    IF m = "first_touch" THEN FirstTouchWeights(n)
    ELSE IF m = "last_touch" THEN LastTouchWeights(n)
    ELSE IF m = "linear" THEN LinearWeights(n)
    ELSE IF m = "time_decay" THEN TimeDecayWeights(n)
    ELSE IF m = "position_based" THEN PositionBasedWeights(n)
    ELSE << >>

generate_attribution_weights(n, m) ==
    IF m = "first_touch" THEN FirstTouchWeights(n)
    ELSE IF m = "last_touch" THEN LastTouchWeights(n)
    ELSE IF m = "linear" THEN LinearWeights(n)
    ELSE IF m = "time_decay" THEN TimeDecayWeights(n)
    ELSE IF m = "position_based" THEN PositionBasedWeights(n)
    ELSE Repeat(Div(1, n), n)

KnownModels == {"first_touch", "last_touch", "linear", "time_decay", "position_based"}
\* names no branch of the function tests for
UnknownModels == {"u_shaped", "Linear", ""}

AttrInit ==
    /\ attr_pc = "call"
    /\ n_touchpoints \in 1..MaxTouchpoints
    /\ model \in KnownModels \cup UnknownModels
    /\ weights = None

AttrIdle ==
    /\ attr_pc = "idle"
    /\ n_touchpoints = 1
    /\ model = "linear"
    /\ weights = None

CallAttributionWeights ==
    /\ attr_pc = "call"
    /\ weights' = generate_attribution_weights(n_touchpoints, model)
    /\ attr_pc' = "returned"
    /\ UNCHANGED <<n_touchpoints, model>>
    /\ UNCHANGED <<gen_vars, run_vars>>

----------------------------------------------------------------------------
(* datetime.strptime / strftime("%Y-%m-%d") and the generation window *)

IsLeap(y) == (y % 4 = 0 /\ y % 100 # 0) \/ y % 400 = 0

DaysInMonth(y, m) ==
    IF m = 2 THEN (IF IsLeap(y) THEN 29 ELSE 28)
    ELSE IF m \in {4, 6, 9, 11} THEN 30 ELSE 31

DaysInYear(y) == IF IsLeap(y) THEN 366 ELSE 365

RECURSIVE DaysBeforeYear(_)
DaysBeforeYear(y) == IF y <= 2023 THEN 0 ELSE DaysInYear(y - 1) + DaysBeforeYear(y - 1)

RECURSIVE DaysBeforeMonth(_, _)
DaysBeforeMonth(y, m) == IF m <= 1 THEN 0 ELSE DaysInMonth(y, m - 1) + DaysBeforeMonth(y, m - 1)

\* datetime.strptime(s, "%Y-%m-%d"): the day ordinal of the date string s
strptime(s) == DaysBeforeYear(s[1]) + DaysBeforeMonth(s[1], s[2]) + (s[3] - 1)

RECURSIVE FromOrdinal(_, _, _)
FromOrdinal(y, m, n) ==
    IF n < DaysInMonth(y, m) THEN <<y, m, n + 1>>
    ELSE IF m = 12 THEN FromOrdinal(y + 1, 1, n - DaysInMonth(y, m))
    ELSE FromOrdinal(y, m + 1, n - DaysInMonth(y, m))

\* config.DATE_START = "2024-02-01"
DATE_START == <<2024, 2, 1>>
\* config.DATE_END is "2025-01-31"; the window is cut to two days here, so that
\* a journey of two days from the last post date runs past its end
DATE_END == <<2024, 2, 3>>

\* the date strings of the day ordinals up to 365 days past the window, each
\* formatted once by FromOrdinal
Calendar == [d \in 0..(strptime(DATE_END) + 365) |-> FromOrdinal(2023, 1, d)]

\* d.strftime("%Y-%m-%d"): the date string of day ordinal d
strftime(d) == Calendar[d]

\* (end_date - start_date).days
date_range == strptime(DATE_END) - strptime(DATE_START)

----------------------------------------------------------------------------
(* np.random draws *)

\* np.random.randint(low, high): low <= x < high
randint(low, high) == low..(high - 1)

Min(a, b) == IF a <= b THEN a ELSE b
Max(a, b) == IF a >= b THEN a ELSE b

\* np.clip(x, lo, hi)
Clip(x, lo, hi) == Max(lo, Min(x, hi))

JourneyMin == 1
JourneyMax == 90

\* int(np.random.exponential(7)): the draws explored (0 is clipped up to 1)
ExponentialDraws == {0, 1, 2}

\* distributions.generate_customer_journey_length: the values it can return
generate_customer_journey_length ==
    {Clip(length, JourneyMin, JourneyMax) : length \in ExponentialDraws}

AttributionWeightLow == 50
AttributionWeightHigh == 400

\* round(np.random.uniform(0.05, 0.40), 3), in thousandths: both ends of the range
AttributionWeightDraws == {AttributionWeightLow, AttributionWeightHigh}

\* str(uuid4()): the k-th identifier issued after `issued` others
uuid4(issued, k) == <<issued + k>>

\* df[column].tolist()
Column(df, column) == {df[i][column] : i \in 1..Len(df)}

----------------------------------------------------------------------------
(* The decisions of the generators that the tables' invariants rest on *)

\* mutant: a brand is drawn whether or not the post is sponsored
PostBrandChoicesAlways(is_sponsored, brand_ids) == brand_ids

\* mutant: a sponsored post may name a brand that is not in the brands table
PostBrandChoicesUnknown(is_sponsored, brand_ids) ==
    IF is_sponsored THEN brand_ids \cup {<<0>>} ELSE {None}

\* generate_posts: "brand_id": np.random.choice(brand_ids) if is_sponsored else None
PostBrandChoices(is_sponsored, brand_ids) ==
    IF is_sponsored THEN brand_ids ELSE {None}

\* mutant: the conversion date is not capped at the window's end
AttributedConversionDateUncapped(post_date, journey_length, end_date) ==
    post_date + journey_length

\* generate_conversions: min(post_date + timedelta(days=journey_length), end_date)
AttributedConversionDate(post_date, journey_length, end_date) ==
    Min(post_date + journey_length, end_date)

\* mutant: the offset is added to the conversion date instead of subtracted
DaysBeforeDrawsAfter(customer_journey_length) ==
    {0 - d : d \in 0..(IF customer_journey_length >= 1 THEN customer_journey_length - 1 ELSE 0)}

\* generate_touchpoints: np.random.randint(0, max(1, customer_journey_length))
DaysBeforeDraws(customer_journey_length) ==
    randint(0, Max(1, customer_journey_length))

\* generate_touchpoints: the attribution_weight of a row
TouchpointWeightDraws(leads_to_conversion) ==
    IF leads_to_conversion THEN AttributionWeightDraws ELSE {0}

----------------------------------------------------------------------------
(* SyntheticDataGenerator *)

\* __init__: every table is None; generate_all has not built anything yet
GenInit ==
    /\ pc = "generate_brands"
    /\ rows = << >>
    /\ brands_df = None
    /\ influencers_df = None
    /\ posts_df = None
    /\ conversions_df = None
    /\ touchpoints_df = None
    /\ saved = {}
    /\ uuids = 0

\* one iteration of the loop of generate_brands; the last one returns the table
generate_brands ==
    /\ pc = "generate_brands"
    /\ Len(rows) < N_BRANDS
    /\ LET brands == Append(rows, [brand_id |-> uuid4(uuids, 1)])
       IN  IF Len(brands) = N_BRANDS
           THEN /\ brands_df' = brands
                /\ rows' = << >>
                /\ pc' = "generate_influencers"
           ELSE /\ rows' = brands
                /\ UNCHANGED <<brands_df, pc>>
    /\ uuids' = uuids + 1
    /\ UNCHANGED <<influencers_df, posts_df, conversions_df, touchpoints_df, saved>>
    /\ UNCHANGED <<attr_vars, run_vars>>

\* one iteration of the loop of generate_influencers
generate_influencers ==
    /\ pc = "generate_influencers"
    /\ Len(rows) < N_INFLUENCERS
    /\ LET influencers == Append(rows, [influencer_id |-> uuid4(uuids, 1)])
       IN  IF Len(influencers) = N_INFLUENCERS
           THEN /\ influencers_df' = influencers
                /\ rows' = << >>
                /\ pc' = "generate_posts"
           ELSE /\ rows' = influencers
                /\ UNCHANGED <<influencers_df, pc>>
    /\ uuids' = uuids + 1
    /\ UNCHANGED <<brands_df, posts_df, conversions_df, touchpoints_df, saved>>
    /\ UNCHANGED <<attr_vars, run_vars>>

\* one iteration of the loop of generate_posts
generate_posts ==
    /\ pc = "generate_posts"
    /\ Len(rows) < N_POSTS
    /\ LET start_date == strptime(DATE_START)
           influencer_ids == Column(influencers_df, "influencer_id")
           brand_ids == Column(brands_df, "brand_id")
       IN  \E inf_id \in influencer_ids, random_days \in randint(0, date_range),
              is_sponsored \in BOOLEAN :
           \E brand_id \in PostBrandChoices(is_sponsored, brand_ids) :
             LET post_date == start_date + random_days
                 posts == Append(rows,
                            [post_id |-> uuid4(uuids, 1),
                             influencer_id |-> inf_id,
                             brand_id |-> brand_id,
                             post_date |-> strftime(post_date),
                             is_sponsored |-> is_sponsored])
             IN  IF Len(posts) = N_POSTS
                 THEN /\ posts_df' = posts
                      /\ rows' = << >>
                      /\ pc' = "generate_conversions"
                 ELSE /\ rows' = posts
                      /\ UNCHANGED <<posts_df, pc>>
    /\ uuids' = uuids + 1
    /\ UNCHANGED <<brands_df, influencers_df, conversions_df, touchpoints_df, saved>>
    /\ UNCHANGED <<attr_vars, run_vars>>

\* mutant: a conversion is attributed to a post whether sponsored or not
any_posts == posts_df

\* posts_df[posts_df["is_sponsored"] == True]
sponsored_posts == SelectSeq(posts_df, LAMBDA p : p.is_sponsored = TRUE)

\* the rows one iteration of generate_conversions can append
ConversionDraws ==
    LET start_date == strptime(DATE_START)
        end_date == strptime(DATE_END)
        Row(post_id, influencer_id, brand_id, conversion_date, journey_length) ==
            [conversion_id |-> uuid4(uuids, 1),
             customer_id |-> uuid4(uuids, 2),
             post_id |-> post_id,
             influencer_id |-> influencer_id,
             brand_id |-> brand_id,
             conversion_date |-> strftime(conversion_date),
             customer_journey_length |-> journey_length]
        attributed ==
            {Row(sponsored_posts[k].post_id, sponsored_posts[k].influencer_id,
                 sponsored_posts[k].brand_id,
                 AttributedConversionDate(strptime(sponsored_posts[k].post_date),
                                          journey_length, end_date),
                 journey_length) :
               k \in 1..Len(sponsored_posts),
               journey_length \in generate_customer_journey_length}
        unattributed ==
            {Row(None, None, brand_id, start_date + random_days, journey_length) :
               brand_id \in Column(brands_df, "brand_id"),
               random_days \in randint(0, date_range),
               journey_length \in generate_customer_journey_length}
    IN  [has_attribution \in BOOLEAN |->
           IF has_attribution /\ Len(sponsored_posts) > 0 THEN attributed ELSE unattributed]

\* one iteration of the loop of generate_conversions
generate_conversions ==
    /\ pc = "generate_conversions"
    /\ Len(rows) < N_CONVERSIONS
    /\ \E has_attribution \in BOOLEAN :
       \E row \in ConversionDraws[has_attribution] :
         LET conversions == Append(rows, row)
         IN  IF Len(conversions) = N_CONVERSIONS
             THEN /\ conversions_df' = conversions
                  /\ rows' = << >>
                  /\ pc' = "generate_touchpoints"
             ELSE /\ rows' = conversions
                  /\ UNCHANGED <<conversions_df, pc>>
    /\ uuids' = uuids + 2
    /\ UNCHANGED <<brands_df, influencers_df, posts_df, touchpoints_df, saved>>
    /\ UNCHANGED <<attr_vars, run_vars>>

\* conversions[conversions["post_id"].notna()]
WithPosts(conversions) == SelectSeq(conversions, LAMBDA c : c.post_id # None)

\* conversions_df[conversions_df["post_id"].notna()]
conversions_with_posts == WithPosts(conversions_df)

\* mutant: the weight is read off the attribution_type of the conversion
LinkedWeightDrawsByLabel(conversion) ==
    IF conversion.attribution_type = "first_touch"
    THEN {AttributionWeightHigh} ELSE {AttributionWeightLow}

\* generate_touchpoints: the attribution_weight of a row linked to
\* `conversion`; the expression of line 363 reads leads_to_conversion alone
LinkedWeightDraws(conversion) == TouchpointWeightDraws(TRUE)

\* the rows one iteration of generate_touchpoints can append when
\* conversions_with_posts is `with_posts`, with the number of uuid4() calls
\* the iteration makes
TouchpointDrawsFrom(with_posts) ==
    LET start_date == strptime(DATE_START)
        LinkedRow(conversion, days_before, weight) ==
            [issued |-> 1,
             row |-> [touchpoint_id |-> uuid4(uuids, 1),
                      customer_id |-> conversion.customer_id,
                      post_id |-> conversion.post_id,
                      touchpoint_date |->
                          strftime(strptime(conversion.conversion_date) - days_before),
                      contributed_to_conversion |-> TRUE,
                      conversion_id |-> conversion.conversion_id,
                      attribution_weight |-> weight]]
        linked ==
            UNION {{LinkedRow(with_posts[k], days_before, weight) :
                      days_before \in DaysBeforeDraws(with_posts[k].customer_journey_length),
                      weight \in LinkedWeightDraws(with_posts[k])} :
                   k \in 1..Len(with_posts)}
        standalone(leads_to_conversion) ==
            {[issued |-> 2,
              row |-> [touchpoint_id |-> uuid4(uuids, 2),
                       customer_id |-> uuid4(uuids, 1),
                       post_id |-> post_id,
                       touchpoint_date |-> strftime(start_date + random_days),
                       contributed_to_conversion |-> leads_to_conversion,
                       conversion_id |-> None,
                       attribution_weight |-> weight]] :
               post_id \in Column(posts_df, "post_id") \cup {None},
               random_days \in randint(0, date_range),
               weight \in TouchpointWeightDraws(leads_to_conversion)}
    IN  [leads_to_conversion \in BOOLEAN |->
           IF leads_to_conversion /\ Len(with_posts) > 0
           THEN linked
           ELSE standalone(leads_to_conversion)]

\* the rows one iteration of generate_touchpoints can append
TouchpointDraws == TouchpointDrawsFrom(conversions_with_posts)

\* one iteration of the loop of generate_touchpoints
generate_touchpoints ==
    /\ pc = "generate_touchpoints"
    /\ Len(rows) < N_TOUCHPOINTS
    /\ \E leads_to_conversion \in BOOLEAN :
       \E t \in TouchpointDraws[leads_to_conversion] :
         LET touchpoints == Append(rows, t.row)
         IN  /\ uuids' = uuids + t.issued
             /\ IF Len(touchpoints) = N_TOUCHPOINTS
                THEN /\ touchpoints_df' = touchpoints
                     /\ rows' = << >>
                     /\ pc' = "save_all"
                ELSE /\ rows' = touchpoints
                     /\ UNCHANGED <<touchpoints_df, pc>>
    /\ UNCHANGED <<brands_df, influencers_df, posts_df, conversions_df, saved>>
    /\ UNCHANGED <<attr_vars, run_vars>>

\* mutant: save_all runs before generate_touchpoints
save_all_early ==
    /\ pc = "generate_touchpoints"
    /\ rows = << >>
    /\ saved' = {"brands.csv", "influencers.csv", "posts.csv", "conversions.csv",
                 "touchpoints.csv"}
    /\ pc' = "done"
    /\ UNCHANGED <<rows, brands_df, influencers_df, posts_df, conversions_df,
                   touchpoints_df, uuids>>
    /\ UNCHANGED <<attr_vars, run_vars>>

\* save_all: the five to_csv calls, then generate_all returns
save_all ==
    /\ pc = "save_all"
    /\ saved' = {"brands.csv", "influencers.csv", "posts.csv", "conversions.csv",
                 "touchpoints.csv"}
    /\ pc' = "done"
    /\ UNCHANGED <<rows, brands_df, influencers_df, posts_df, conversions_df,
                   touchpoints_df, uuids>>
    /\ UNCHANGED <<attr_vars, run_vars>>

----------------------------------------------------------------------------
(* Specifications *)

\* nothing is recorded about the run beyond its tables
RunIdle ==
    /\ config = None
    /\ error = None
    /\ np_random = None
    /\ outputs = << >>

Init == GenInit /\ AttrIdle /\ RunIdle

Next ==
    \/ generate_brands
    \/ generate_influencers
    \/ generate_posts
    \/ generate_conversions
    \/ generate_touchpoints
    \/ save_all

\* generate_all(save=True)
Spec == Init /\ [][Next]_vars

InitAttr == GenInit /\ AttrInit /\ RunIdle

NextAttr == CallAttributionWeights

\* one call of generate_attribution_weights
SpecAttr == InitAttr /\ [][NextAttr]_vars

----------------------------------------------------------------------------
(* Properties of generate_attribution_weights, checked under SpecAttr *)

Returned == attr_pc = "returned"

\* |x - 1.0| <= 1e-6
WithinTolerance(x) ==
    LET diff == IF x[1] >= x[2] THEN x[1] - x[2] ELSE x[2] - x[1]
    IN  diff = 0 \/ x[2] \div diff >= 1000000

\* C1: for each of the five model names and every n from 1 to MaxTouchpoints
\* the function returns exactly n weights, none negative, whose sum is 1.0
\* within 1e-6.
C1_WeightsSumToOne ==
    (Returned /\ model \in KnownModels) =>
        /\ Len(weights) = n_touchpoints
        /\ \A i \in 1..Len(weights) : weights[i][1] >= 0 /\ weights[i][2] > 0
        /\ WithinTolerance(SumFloats(weights))

C1_Witness ==
    Returned /\ model = "position_based" /\ n_touchpoints = 15 /\ Len(weights) = 15

\* C2: first_touch gives weight 1 to index 0 and 0 to every other index;
\* last_touch gives weight 1 to index n-1 and 0 to every other index.
C2_FirstAndLastTouch ==
    /\ (Returned /\ model = "first_touch") =>
          /\ DOMAIN weights = 1..n_touchpoints
          /\ \A i \in 1..n_touchpoints :
                weights[i] = IF i = 1 THEN <<1, 1>> ELSE <<0, 1>>
    /\ (Returned /\ model = "last_touch") =>
          /\ DOMAIN weights = 1..n_touchpoints
          /\ \A i \in 1..n_touchpoints :
                weights[i] = IF i = n_touchpoints THEN <<1, 1>> ELSE <<0, 1>>

C2_Witness ==
    Returned /\ model = "last_touch" /\ n_touchpoints = 4 /\ weights[4] = <<1, 1>>

\* C3: position_based returns [1.0] for n = 1, [0.5, 0.5] for n = 2, and for
\* n >= 3 gives 0.4 to the first and to the last position and 0.2/(n-2) to
\* each of the n-2 positions between them.
C3_PositionBased ==
    (Returned /\ model = "position_based") =>
        /\ DOMAIN weights = 1..n_touchpoints
        /\ n_touchpoints = 1 => weights = <<(<<1, 1>>)>>
        /\ n_touchpoints = 2 => weights = <<(<<1, 2>>), (<<1, 2>>)>>
        /\ n_touchpoints >= 3 =>
              /\ 5 * weights[1][1] = 2 * weights[1][2]
              /\ 5 * weights[n_touchpoints][1] = 2 * weights[n_touchpoints][2]
              /\ \A i \in 2..(n_touchpoints - 1) :
                    5 * (n_touchpoints - 2) * weights[i][1] = weights[i][2]

C3_Witness ==
    Returned /\ model = "position_based" /\ n_touchpoints = 5 /\ weights[3] = <<1, 15>>

\* C4: linear returns n weights, each equal to 1/n.
C4_LinearUniform ==
    (Returned /\ model = "linear") =>
        /\ DOMAIN weights = 1..n_touchpoints
        /\ \A i \in 1..n_touchpoints : n_touchpoints * weights[i][1] = weights[i][2]

C4_Witness ==
    Returned /\ model = "linear" /\ n_touchpoints = 7 /\ weights[7] = <<1, 7>>

\* C5: a model name that is none of the five known names gets the list
\* returned for "linear"; the call returns, it does not fail.
C5_UnknownModelIsLinear ==
    (Returned /\ model \notin KnownModels) =>
        /\ Len(weights) = n_touchpoints
        /\ weights = generate_attribution_weights(n_touchpoints, "linear")

C5_Witness ==
    Returned /\ model = "Linear" /\ n_touchpoints = 3 /\ weights[1] = <<1, 3>>

\* C6: time_decay gives position i (0-based) the weight 2^i / (2^n - 1):
\* the weights strictly increase with position and each is exactly twice
\* the one before it.
C6_TimeDecay ==
    (Returned /\ model = "time_decay") =>
        /\ DOMAIN weights = 1..n_touchpoints
        /\ \A i \in 1..n_touchpoints :
              weights[i][1] * (Pow2(n_touchpoints) - 1) = Pow2(i - 1) * weights[i][2]
        /\ \A i \in 1..(n_touchpoints - 1) :
              /\ Less(weights[i], weights[i + 1])
              /\ 2 * weights[i][1] * weights[i + 1][2] = weights[i + 1][1] * weights[i][2]

C6_Witness ==
    Returned /\ model = "time_decay" /\ n_touchpoints = 3
             /\ weights = <<(<<1, 7>>), (<<2, 7>>), (<<4, 7>>)>>

----------------------------------------------------------------------------
(* Properties of the generated tables, checked under Spec *)

\* the rows of a table: those appended so far while its generator runs
PostRows == IF pc = "generate_posts" THEN rows ELSE posts_df
ConversionRows == IF pc = "generate_conversions" THEN rows ELSE conversions_df
TouchpointRows == IF pc = "generate_touchpoints" THEN rows ELSE touchpoints_df

\* the post / conversion row an id refers to
PostOf(post_id) == posts_df[CHOOSE i \in 1..Len(posts_df) : posts_df[i].post_id = post_id]
ConversionOf(conversion_id) ==
    conversions_df[CHOOSE i \in 1..Len(conversions_df) :
                     conversions_df[i].conversion_id = conversion_id]

\* C7: every post row has is_sponsored true if and only if its brand_id is
\* non-null.
C7_SponsoredIffBrand ==
    \A i \in 1..Len(PostRows) :
        PostRows[i].is_sponsored <=> PostRows[i].brand_id # None

C7_Witness ==
    /\ pc = "done"
    /\ \E i \in 1..Len(posts_df) :
          posts_df[i].is_sponsored /\ posts_df[i].brand_id \in Column(brands_df, "brand_id")

\* C8: every conversion row with a non-null post_id has a conversion_date on
\* or after the post's post_date, at most customer_journey_length days after
\* it and never after the window's end: it is min(post_date + journey, end).
C8_ConversionDateWindow ==
    \A i \in 1..Len(ConversionRows) :
        LET c == ConversionRows[i]
            conversion_date == strptime(c.conversion_date)
            post_date == strptime(PostOf(c.post_id).post_date)
            end_date == strptime(DATE_END)
        IN  c.post_id # None =>
              /\ conversion_date >= post_date
              /\ conversion_date <= post_date + c.customer_journey_length
              /\ conversion_date <= end_date
              /\ conversion_date = Min(post_date + c.customer_journey_length, end_date)

\* a conversion whose journey runs past the window's end, and is capped there
C8_Witness ==
    /\ pc = "done"
    /\ \E i \in 1..Len(conversions_df) :
          LET c == conversions_df[i]
          IN  /\ c.post_id # None
              /\ strptime(PostOf(c.post_id).post_date) + c.customer_journey_length
                   > strptime(DATE_END)
              /\ c.conversion_date = DATE_END

\* C9: in every touchpoint table, a touchpoint with a non-null conversion_id
\* has attribution_weight > 0 and contributed_to_conversion true, and every
\* touchpoint with a null conversion_id has attribution_weight 0.0 and
\* contributed_to_conversion false.
C9_WeightIffConversion ==
    \A i \in 1..Len(TouchpointRows) :
        LET t == TouchpointRows[i]
        IN  /\ t.conversion_id # None =>
                  t.attribution_weight > 0 /\ t.contributed_to_conversion
            /\ t.conversion_id = None =>
                  t.attribution_weight = 0 /\ ~t.contributed_to_conversion

\* days from a linked touchpoint to its conversion
DaysToConversion(t) ==
    strptime(ConversionOf(t.conversion_id).conversion_date) - strptime(t.touchpoint_date)

SpecKeys == Init /\ [][Next]_vars

\* the values of a column of the rows of a table built so far
Ids(table, column) == {table[i][column] : i \in 1..Len(table)}

\* C11: every non-null foreign key resolves to an existing row:
\* posts.influencer_id in influencers, posts.brand_id in brands,
\* conversions.post_id in posts, conversions.influencer_id in influencers,
\* conversions.brand_id in brands, touchpoints.post_id in posts and
\* touchpoints.conversion_id in conversions.
C11_ForeignKeysResolve ==
    LET influencer_ids == Ids(influencers_df, "influencer_id") \cup {None}
        brand_ids == Ids(brands_df, "brand_id") \cup {None}
        post_ids == Ids(posts_df, "post_id") \cup {None}
        conversion_ids == Ids(conversions_df, "conversion_id") \cup {None}
    IN  /\ Ids(PostRows, "influencer_id") \subseteq influencer_ids
        /\ Ids(PostRows, "brand_id") \subseteq brand_ids
        /\ Ids(ConversionRows, "post_id") \subseteq post_ids
        /\ Ids(ConversionRows, "influencer_id") \subseteq influencer_ids
        /\ Ids(ConversionRows, "brand_id") \subseteq brand_ids
        /\ Ids(TouchpointRows, "post_id") \subseteq post_ids
        /\ Ids(TouchpointRows, "conversion_id") \subseteq conversion_ids

\* generate_all has returned a touchpoint that names a post and a conversion,
\* the conversion naming a post, an influencer and a brand
C11_Witness ==
    /\ pc = "done"
    /\ \E i \in 1..Len(touchpoints_df) :
          LET t == touchpoints_df[i]
          IN  /\ t.post_id # None
              /\ t.conversion_id # None
              /\ ConversionOf(t.conversion_id).influencer_id # None
              /\ ConversionOf(t.conversion_id).brand_id # None
              /\ PostOf(t.post_id).brand_id # None

----------------------------------------------------------------------------
(* SpecRuns: two runs of the generator with the same seed.                 *)
(* np.random is the global generator that __init__ seeds: the seed fixes   *)
(* the whole stream of its draws, so the model picks the stream in Init    *)
(* and every run reads it from position 0.  uuid4() reads os.urandom: it   *)
(* is not part of that stream, and here its value is drawn afresh.         *)

\* config.RANDOM_SEED
RANDOM_SEED == 42

\* the keys of config.BRAND_TIERS
BrandTierNames == {"Luxury", "Premium", "Mid-market", "Fast-fashion", "DTC"}

\* the identifiers os.urandom can give str(uuid4())
UuidDraws == {<<1>>, <<2>>, <<3>>, <<4>>}

\* how many runs are compared
Runs == 2

\* the state of np.random after k draws from the stream its seed fixed
Seeded(stream, k) == [MT19937 |-> stream, pos |-> k]

\* the next draw of the seeded generator
NextDraw == np_random.MT19937[np_random.pos + 1]

InitRuns ==
    /\ pc = "SyntheticDataGenerator"
    /\ rows = << >>
    /\ brands_df = None
    /\ influencers_df = None
    /\ posts_df = None
    /\ conversions_df = None
    /\ touchpoints_df = None
    /\ saved = {}
    /\ uuids = 0
    /\ config = [RANDOM_SEED |-> RANDOM_SEED]
    /\ error = None
    /\ np_random \in {Seeded(stream, 0) : stream \in [1..N_BRANDS -> BrandTierNames]}
    /\ outputs = << >>
    /\ AttrIdle

\* SyntheticDataGenerator(seed): np.random.seed(seed), every table None
SyntheticDataGenerator ==
    /\ pc = "SyntheticDataGenerator"
    /\ Len(outputs) < Runs
    /\ np_random' = Seeded(np_random.MT19937, 0)
    /\ brands_df' = None
    /\ rows' = << >>
    /\ pc' = "generate_brands"
    /\ UNCHANGED <<influencers_df, posts_df, conversions_df, touchpoints_df, saved,
                   uuids, config, error, outputs>>
    /\ UNCHANGED attr_vars

\* one iteration of the loop of generate_brands: brand_tier comes from the
\* seeded stream, brand_id from uuid4(); the last iteration returns the table
generate_brands_seeded ==
    /\ pc = "generate_brands"
    /\ Len(rows) < N_BRANDS
    /\ \E brand_id \in UuidDraws \ Ids(rows, "brand_id") :
         LET brands == Append(rows, [brand_id |-> brand_id, brand_tier |-> NextDraw])
         IN  IF Len(brands) = N_BRANDS
             THEN /\ brands_df' = brands
                  /\ outputs' = Append(outputs, brands)
                  /\ rows' = << >>
                  /\ pc' = "SyntheticDataGenerator"
             ELSE /\ rows' = brands
                  /\ UNCHANGED <<brands_df, outputs, pc>>
    /\ np_random' = Seeded(np_random.MT19937, np_random.pos + 1)
    /\ uuids' = uuids + 1
    /\ UNCHANGED <<influencers_df, posts_df, conversions_df, touchpoints_df, saved,
                   config, error>>
    /\ UNCHANGED attr_vars

NextRuns == SyntheticDataGenerator \/ generate_brands_seeded

SpecRuns == InitRuns /\ [][NextRuns]_vars

\* C12: two runs with the same seed and the same configuration produce
\* identical tables in every column, the identifier columns included
\* (here the brands table: brand_id and brand_tier).
C12_SameSeedSameTables ==
    Len(outputs) = Runs => outputs[1] = outputs[2]

----------------------------------------------------------------------------
(* generate_scores.py: the scoring script.  It reads data/raw/*.csv, here  *)
(* the tables influencers_df, posts_df and conversions_df, and writes      *)
(* data/processed/influencer_scores.csv.  Floats are exact fractions.      *)

\* the float of an int
Float(k) == <<k, 1>>
\* the float x - y
Sub(x, y) == Add(x, <<0 - y[1], y[2]>>)
\* the float x * y
Mul(x, y) == Div(x[1] * y[1], x[2] * y[2])
\* the float x / y, for y > 0
Quot(x, y) == Div(x[1] * y[2], x[2] * y[1])
\* x <= y
LessEq(x, y) == x[1] * y[2] <= y[1] * x[2]

\* df[column].sum() of an int column
RECURSIVE SumColumn(_, _)
SumColumn(df, column) ==
    IF df = << >> THEN 0 ELSE Head(df)[column] + SumColumn(Tail(df), column)

\* the pairs (data_min, data_max) for which the double X * scale_ + min_
\* of data_max is 100.00000000000001: with data_min -1.0 and data_max 10.0,
\* scale_ = 100 / 11 and min_ = -data_min * scale_ are both
\* 9.090909090909092, and 10 * scale_ + min_ rounds above 100
ScaledAbove == {<<Float(0 - 1), Float(10)>>}

\* what stands for the unit in the last place of the double 100.0
UlpOf100 == Div(1, 1000)

\* MinMaxScaler(feature_range=(0, 100)).fit_transform(column): a constant
\* column has data_range 0, which the scaler replaces by 1; the result is
\* not clipped to the feature range
MinMaxScaler(column) ==
    LET values == {column[i] : i \in 1..Len(column)}
        data_min == CHOOSE x \in values : \A y \in values : LessEq(x, y)
        data_max == CHOOSE x \in values : \A y \in values : LessEq(y, x)
        data_range == Sub(data_max, data_min)
        scale == IF data_range = Float(0) THEN Float(100)
                 ELSE Quot(Float(100), data_range)
    IN  [i \in 1..Len(column) |->
           IF column[i] = data_max /\ <<data_min, data_max>> \in ScaledAbove
           THEN Add(Mul(Sub(column[i], data_min), scale), UlpOf100)
           ELSE Mul(Sub(column[i], data_min), scale)]

\* np.clip / Series.clip on floats
ClipFloat(x, lo, hi) == IF Less(x, lo) THEN lo ELSE IF Less(hi, x) THEN hi ELSE x

\* rows of the groupby aggregate of posts for one influencer; an influencer
\* without posts gets NaN in every aggregated column after the left merge
PostsOf(posts, influencer_id) ==
    SelectSeq(posts, LAMBDA p : p.influencer_id = influencer_id)
ConversionsOf(conversions, influencer_id) ==
    SelectSeq(conversions, LAMBDA c : c.influencer_id = influencer_id)
SponsoredCount(posts) == Len(SelectSeq(posts, LAMBDA p : p.is_sponsored))

\* inf_data['engagement_quality'].fillna(0)
engagement_quality(inf, posts) ==
    LET mine == PostsOf(posts, inf.influencer_id)
        weighted_engagement ==
            SumColumn(mine, "likes") + SumColumn(mine, "comments") * 2
              + SumColumn(mine, "saves") * 3 + SumColumn(mine, "shares") * 2
    IN  IF mine = << >> THEN Float(0)
        ELSE Quot(Float(weighted_engagement), Div(inf.follower_count, 1000))

\* inf_data['conversion_rate'].fillna(0)
conversion_rate(inf, posts, conversions) ==
    LET sponsored_count == SponsoredCount(PostsOf(posts, inf.influencer_id))
    IN  IF sponsored_count > 0
        THEN Div(Len(ConversionsOf(conversions, inf.influencer_id)), sponsored_count)
        ELSE Float(0)

\* inf_data['roi_capped'].fillna(0)
roi_capped(inf, posts, conversions) ==
    LET revenue == SumColumn(ConversionsOf(conversions, inf.influencer_id), "order_value")
        total_cost == inf.avg_collaboration_cost
                        * SponsoredCount(PostsOf(posts, inf.influencer_id))
        roi == IF total_cost > 0 THEN Div(revenue - total_cost, total_cost) ELSE Float(0)
    IN  ClipFloat(roi, Float(0 - 1), Float(10))

\* alignment_scores
alignment_scores ==
    [category \in {"Luxury Fashion", "Streetwear", "Sustainable Fashion", "Fast Fashion",
                   "Accessories", "Footwear", "Activewear", "Vintage/Thrift"} |->
       CASE category = "Luxury Fashion" -> 95
         [] category = "Streetwear" -> 85
         [] category = "Sustainable Fashion" -> 90
         [] category = "Fast Fashion" -> 80
         [] category = "Accessories" -> 85
         [] category = "Footwear" -> 82
         [] category = "Activewear" -> 78
         [] category = "Vintage/Thrift" -> 88]

\* inf_data['content_category'].map(alignment_scores).fillna(75)
brand_alignment_score(inf) ==
    IF inf.content_category \in DOMAIN alignment_scores
    THEN Float(alignment_scores[inf.content_category])
    ELSE Float(75)

\* mutant: the weights of conversion_score and roi_score are exchanged
influencer_score_swapped(e, a, c, r, b) ==
    Add(Add(Add(Add(Mul(Div(25, 100), e), Mul(Div(25, 100), a)), Mul(Div(15, 100), c)),
            Mul(Div(30, 100), r)),
        Mul(Div(5, 100), b))

\* inf_data['influencer_score']
influencer_score(e, a, c, r, b) ==
    Add(Add(Add(Add(Mul(Div(25, 100), e), Mul(Div(25, 100), a)), Mul(Div(30, 100), c)),
            Mul(Div(15, 100), r)),
        Mul(Div(5, 100), b))

\* inf_data['performance_segment']: the lambda applied to one score
performance_segment(x) ==
    IF LessEq(Float(75), x) THEN "High Performer"
    ELSE IF LessEq(Float(50), x) THEN "Medium Performer"
    ELSE "Low Performer"

\* inf_data[output_cols], the columns of the scores
ScoreTable(influencers, posts, conversions) ==
    LET n == Len(influencers)
        engagement_quality_score ==
            MinMaxScaler([i \in 1..n |-> engagement_quality(influencers[i], posts)])
        conversion_score ==
            MinMaxScaler([i \in 1..n |-> conversion_rate(influencers[i], posts, conversions)])
        roi_score ==
            MinMaxScaler([i \in 1..n |-> roi_capped(influencers[i], posts, conversions)])
    IN  [i \in 1..n |->
           LET authenticity_score ==
                   Mul(influencers[i].audience_authenticity_score, Float(100))
               score == influencer_score(engagement_quality_score[i], authenticity_score,
                                         conversion_score[i], roi_score[i],
                                         brand_alignment_score(influencers[i]))
           IN  [influencer_id |-> influencers[i].influencer_id,
                engagement_quality_score |-> engagement_quality_score[i],
                authenticity_score |-> authenticity_score,
                conversion_score |-> conversion_score[i],
                roi_score |-> roi_score[i],
                brand_alignment_score |-> brand_alignment_score(influencers[i]),
                influencer_score |-> score,
                performance_segment |-> performance_segment(score)]]

\* mutant: the script writes its columns back over data/raw/influencers.csv
RawInfluencersOverwritten(influencers, scores) ==
    [i \in 1..Len(influencers) |->
       [influencers[i] EXCEPT !.audience_authenticity_score = scores[i].authenticity_score]]

\* data/raw/influencers.csv after the script: it is only read; the one file
\* written is data/processed/influencer_scores.csv
RawInfluencersAfter(influencers, scores) == influencers

----------------------------------------------------------------------------
(* SpecScores: the scoring script run Runs times on the same raw tables,   *)
(* which Init draws from small sets of rows the generator can write.       *)

\* most rows of posts.csv and of conversions.csv in a scored data set
MaxScoredPosts == 2
MaxScoredConversions == 1

\* rows of influencers.csv, of posts.csv and of conversions.csv
ScoredInfluencer(k, follower_counts, content_categories) ==
    {[influencer_id |-> <<k>>,
      follower_count |-> follower_count,
      audience_authenticity_score |-> Div(authenticity, 100),
      avg_collaboration_cost |-> 100,
      content_category |-> content_category] :
        follower_count \in follower_counts, authenticity \in {64, 95},
        content_category \in content_categories}
ScoredPost ==
    {[influencer_id |-> <<k>>, likes |-> 100, comments |-> 10, saves |-> 5,
      shares |-> 2, is_sponsored |-> is_sponsored] :
        k \in {1, 2}, is_sponsored \in BOOLEAN}
ScoredConversion ==
    {[influencer_id |-> influencer_id, order_value |-> order_value] :
        influencer_id \in {None, <<1>>, <<2>>}, order_value \in {50, 5000}}

InitScores ==
    /\ pc = "generate_scores"
    /\ rows = << >>
    /\ brands_df = None
    /\ influencers_df \in
          {<<first, second>> :
             first \in ScoredInfluencer(1, {1000, 2000}, {"Fast Fashion", "Luxury Fashion"}),
             second \in ScoredInfluencer(2, {1000}, {"Streetwear"})}
    /\ posts_df \in UNION {[1..n -> ScoredPost] : n \in 0..MaxScoredPosts}
    /\ conversions_df \in UNION {[1..n -> ScoredConversion] : n \in 0..MaxScoredConversions}
    \* generate_conversions attributes a conversion to the influencer of a sponsored post
    /\ \A i \in 1..Len(conversions_df) :
          conversions_df[i].influencer_id # None =>
              SponsoredCount(PostsOf(posts_df, conversions_df[i].influencer_id)) > 0
    /\ touchpoints_df = None
    /\ saved = {}
    /\ uuids = 0
    /\ RunIdle
    /\ AttrIdle

\* one run of generate_scores.py
generate_scores ==
    /\ pc = "generate_scores"
    /\ Len(outputs) < Runs
    /\ LET scores == ScoreTable(influencers_df, posts_df, conversions_df)
       IN  /\ outputs' = Append(outputs, scores)
           /\ influencers_df' = RawInfluencersAfter(influencers_df, scores)
    /\ UNCHANGED <<pc, rows, brands_df, posts_df, conversions_df, touchpoints_df, saved,
                   uuids, config, error, np_random>>
    /\ UNCHANGED attr_vars

NextScores == generate_scores

SpecScores == InitScores /\ [][NextScores]_vars

C19_CompositeAndSegment ==
    \A k \in 1..Len(outputs) : \A i \in 1..Len(outputs[k]) :
        LET o == outputs[k][i]
            Part(percent, component) == Mul(Div(percent, 100), component)
            score == o.influencer_score
        IN  /\ score = SumFloats(<<Part(25, o.engagement_quality_score),
                                    Part(25, o.authenticity_score),
                                    Part(30, o.conversion_score),
                                    Part(15, o.roi_score),
                                    Part(5, o.brand_alignment_score)>>)
            /\ o.performance_segment = "High Performer" <=> ~Less(score, Float(75))
            /\ o.performance_segment = "Medium Performer" <=>
                   (~Less(score, Float(50)) /\ Less(score, Float(75)))
            /\ o.performance_segment = "Low Performer" <=> Less(score, Float(50))

\* an influencer whose score is exactly 75 is a High Performer, next to one
\* with different conversion and roi scores
C19_Witness ==
    /\ Len(outputs) >= 1
    /\ outputs[1][1].influencer_score = Float(75)
    /\ outputs[1][1].performance_segment = "High Performer"
    /\ outputs[1][1].conversion_score = Float(100)
    /\ outputs[1][1].roi_score = Float(0)

----------------------------------------------------------------------------
(* SpecProfiles: generate_brands and generate_influencers with the tier    *)
(* columns and the numbers drawn from the tier's range.                    *)

\* budget_ranges of generate_brands, in dollars
budget_ranges ==
    [tier \in BrandTierNames |->
       CASE tier = "Luxury" -> <<200000, 500000>>
         [] tier = "Premium" -> <<100000, 250000>>
         [] tier = "Mid-market" -> <<50000, 150000>>
         [] tier = "Fast-fashion" -> <<75000, 200000>>
         [] tier = "DTC" -> <<25000, 100000>>]

\* mutant: the budget is drawn from the Luxury range whatever the tier
BudgetDrawsLuxury(tier) ==
    {budget_ranges["Luxury"][1] * 100, budget_ranges["Luxury"][2] * 100}

\* round(np.random.uniform(low, high), 2) in cents: low + (high - low) * u
\* for a u in [0, 1) lies in [low, high]; both ends of the range are explored
BudgetDraws(tier) ==
    {budget_ranges[tier][1] * 100, budget_ranges[tier][2] * 100}

\* one iteration of the loop of generate_brands, with brand_tier and
\* monthly_social_budget; the last iteration returns the table
generate_brands_tiers ==
    /\ pc = "generate_brands"
    /\ Len(rows) < N_BRANDS
    /\ \E tier \in BrandTierNames :
       \E monthly_budget \in BudgetDraws(tier) :
         LET brands == Append(rows, [brand_id |-> uuid4(uuids, 1),
                                     brand_tier |-> tier,
                                     monthly_social_budget |-> monthly_budget])
         IN  IF Len(brands) = N_BRANDS
             THEN /\ brands_df' = brands
                  /\ rows' = << >>
                  /\ pc' = "generate_influencers"
             ELSE /\ rows' = brands
                  /\ UNCHANGED <<brands_df, pc>>
    /\ uuids' = uuids + 1
    /\ UNCHANGED <<influencers_df, posts_df, conversions_df, touchpoints_df, saved>>
    /\ UNCHANGED <<attr_vars, run_vars>>

\* the keys of config.TIER_DISTRIBUTION
TierNames == {"nano", "micro", "mid", "macro", "mega"}

\* config.TIER_FOLLOWER_RANGES
TIER_FOLLOWER_RANGES ==
    [tier \in TierNames |->
       CASE tier = "nano" -> <<1000, 10000>>
         [] tier = "micro" -> <<10000, 100000>>
         [] tier = "mid" -> <<100000, 500000>>
         [] tier = "macro" -> <<500000, 1000000>>
         [] tier = "mega" -> <<1000000, 10000000>>]

\* the ends v of the follower ranges for which the double np.exp(np.log(v))
\* is below v: np.log(v) is the double nearest to ln v, and where that
\* double is below ln v its exponential is below v by more than one unit in
\* the last place (np.exp(np.log(1000)) is 999.9999999999998)
ExpLogBelow == {1000, 500000, 1000000}

\* int(np.exp(np.log(v))): int() truncates
IntExpLog(v) == IF v \in ExpLogBelow THEN v - 1 ELSE v

\* distributions.generate_follower_count: the values it can return.
\* np.random.uniform(log_low, log_high) is log_low + (log_high - log_low) * u
\* for a double u in [0, 1): it is log_low for u = 0.0, it rounds to log_high
\* for the largest u, and in between its exponential is inside the range
generate_follower_count(tier) ==
    LET low == TIER_FOLLOWER_RANGES[tier][1]
        high == TIER_FOLLOWER_RANGES[tier][2]
    IN  {IntExpLog(low), (low + high) \div 2, high - 1, IntExpLog(high)}

\* one iteration of the loop of generate_influencers, with tier and
\* follower_count
generate_influencers_tiers ==
    /\ pc = "generate_influencers"
    /\ Len(rows) < N_INFLUENCERS
    /\ \E tier \in TierNames :
       \E followers \in generate_follower_count(tier) :
         LET influencers == Append(rows, [influencer_id |-> uuid4(uuids, 1),
                                          tier |-> tier,
                                          follower_count |-> followers])
         IN  IF Len(influencers) = N_INFLUENCERS
             THEN /\ influencers_df' = influencers
                  /\ rows' = << >>
                  /\ pc' = "generate_posts"
             ELSE /\ rows' = influencers
                  /\ UNCHANGED <<influencers_df, pc>>
    /\ uuids' = uuids + 1
    /\ UNCHANGED <<brands_df, posts_df, conversions_df, touchpoints_df, saved>>
    /\ UNCHANGED <<attr_vars, run_vars>>

NextProfiles == generate_brands_tiers \/ generate_influencers_tiers

SpecProfiles == Init /\ [][NextProfiles]_vars

BrandRows == IF pc = "generate_brands" THEN rows ELSE brands_df
InfluencerRows == IF pc = "generate_influencers" THEN rows ELSE influencers_df

\* C14 as claimed: every influencer row has tier in {nano, micro, mid,
\* macro, mega} and a follower_count f with low <= f < high for the (low,
\* high) follower range of its tier.
C14_FollowersInTierRange ==
    \A i \in 1..Len(InfluencerRows) :
        LET inf == InfluencerRows[i]
        IN  /\ inf.tier \in {"nano", "micro", "mid", "macro", "mega"}
            /\ TIER_FOLLOWER_RANGES[inf.tier][1] <= inf.follower_count
            /\ inf.follower_count < TIER_FOLLOWER_RANGES[inf.tier][2]

\* C15: generate_brands returns exactly N_BRANDS rows, each with brand_tier
\* one of the five configured tiers and monthly_social_budget inside the
\* budget range of its own tier, hence inside [25000, 500000].
C15_BrandsTable ==
    /\ pc # "generate_brands" => Len(brands_df) = N_BRANDS
    /\ \A i \in 1..Len(BrandRows) :
          LET brand == BrandRows[i]
          IN  /\ brand.brand_tier \in
                    {"Luxury", "Premium", "Mid-market", "Fast-fashion", "DTC"}
              /\ budget_ranges[brand.brand_tier][1] * 100 <= brand.monthly_social_budget
              /\ brand.monthly_social_budget <= budget_ranges[brand.brand_tier][2] * 100
              /\ 25000 * 100 <= brand.monthly_social_budget
              /\ brand.monthly_social_budget <= 500000 * 100

\* generate_brands has returned a DTC brand with the smallest budget of all
C15_Witness ==
    /\ pc = "generate_influencers"
    /\ Len(brands_df) = N_BRANDS
    /\ brands_df[1].brand_tier = "DTC"
    /\ brands_df[1].monthly_social_budget = 25000 * 100

----------------------------------------------------------------------------
(* SpecOrders: generate_all up to generate_conversions, the brands with    *)
(* their tier and the conversions with the order value priced from it.     *)

\* config.BRAND_AOV, in dollars
BRAND_AOV ==
    [tier \in BrandTierNames |->
       CASE tier = "Luxury" -> <<500, 2000>>
         [] tier = "Premium" -> <<150, 500>>
         [] tier = "Mid-market" -> <<50, 150>>
         [] tier = "Fast-fashion" -> <<25, 75>>
         [] tier = "DTC" -> <<75, 200>>]

\* distributions.generate_order_value, in cents:
\* round(np.clip(value, low * 0.5, high * 1.5), 2); the draw explored is the
\* lower end of the clip, which is different for each of the five tiers
generate_order_value(brand_tier) == {BRAND_AOV[brand_tier][1] * 50}

\* brand_lookup[brand_id]
BrandOf(brands, brand_id) ==
    brands[CHOOSE i \in 1..Len(brands) : brands[i].brand_id = brand_id]

\* mutant: the order value is always priced from the default tier
OrderBrandTierDefault(brand_id, brands) == "Mid-market"

\* generate_conversions:
\* brand_tier = brand_lookup[brand_id]["brand_tier"] if brand_id else "Mid-market"
OrderBrandTier(brand_id, brands) ==
    IF brand_id # None THEN BrandOf(brands, brand_id).brand_tier ELSE "Mid-market"

\* one iteration of the loop of generate_conversions, with order_value
generate_conversions_orders ==
    /\ pc = "generate_conversions"
    /\ Len(rows) < N_CONVERSIONS
    /\ \E has_attribution \in BOOLEAN :
       \E row \in ConversionDraws[has_attribution] :
       \E order_value \in generate_order_value(OrderBrandTier(row.brand_id, brands_df)) :
         LET conversions == Append(rows, row @@ [order_value |-> order_value])
         IN  IF Len(conversions) = N_CONVERSIONS
             THEN /\ conversions_df' = conversions
                  /\ rows' = << >>
                  /\ pc' = "generate_touchpoints"
             ELSE /\ rows' = conversions
                  /\ UNCHANGED <<conversions_df, pc>>
    /\ uuids' = uuids + 2
    /\ UNCHANGED <<brands_df, influencers_df, posts_df, touchpoints_df, saved>>
    /\ UNCHANGED <<attr_vars, run_vars>>

NextOrders ==
    \/ generate_brands_tiers
    \/ generate_influencers
    \/ generate_posts
    \/ generate_conversions_orders

SpecOrders == Init /\ [][NextOrders]_vars

\* C16: every conversion row with a null post_id has a null influencer_id
\* and a non-null brand_id that is the id of a row of the brands table, so
\* that its order value is priced from that brand's tier, never from the
\* Mid-market default.
C16_UnattributedHasBrand ==
    \A i \in 1..Len(ConversionRows) :
        LET c == ConversionRows[i]
        IN  c.post_id = None =>
              /\ c.influencer_id = None
              /\ c.brand_id # None
              /\ c.brand_id \in Ids(brands_df, "brand_id")
              /\ c.order_value \in
                    generate_order_value(BrandOf(brands_df, c.brand_id).brand_tier)

\* a conversion without a post, priced from the tier of a Luxury brand
C16_Witness ==
    /\ pc = "generate_touchpoints"
    /\ \E i \in 1..Len(conversions_df) :
          LET c == conversions_df[i]
          IN  /\ c.post_id = None
              /\ c.influencer_id = None
              /\ BrandOf(brands_df, c.brand_id).brand_tier = "Luxury"
              /\ c.order_value = 500 * 50

----------------------------------------------------------------------------
(* SpecConfig: generate_all under a configuration that may be malformed.   *)
(* Each generator is one step: it raises where its code raises, or it      *)
(* returns its table (here the identifier column alone).  Probabilities    *)
(* are in hundredths.                                                      *)

\* list(distribution.values()) of config.BRAND_TIERS and of
\* config.TIER_DISTRIBUTION, each with a variant that sums to 0.9
BrandTiersSettings == {<<20, 25, 30, 15, 10>>, <<10, 25, 30, 15, 10>>}
TierDistributionSettings == {<<40, 35, 15, 7, 3>>, <<30, 35, 15, 7, 3>>}
\* config.TIER_FOLLOWER_RANGES["nano"], and a variant with low >= high
NanoRangeSettings == {<<1000, 10000>>, <<10000, 1000>>}

Configurations ==
    [BRAND_TIERS : BrandTiersSettings,
     TIER_DISTRIBUTION : TierDistributionSettings,
     TIER_FOLLOWER_RANGES_nano : NanoRangeSettings,
     N_BRANDS : {N_BRANDS, 0},
     N_INFLUENCERS : {N_INFLUENCERS, 0},
     N_POSTS : {N_POSTS, 0}]

\* np.random.choice(categories, size=size, p=probabilities) raises
\* ValueError("probabilities do not sum to 1")
ChoiceRaises(probabilities) == SumInts(probabilities) # 100

\* pd.DataFrame(rows)[column] raises KeyError when rows is empty: the frame
\* of an empty list has no columns
ColumnRaises(df) == Len(df) = 0

InitConfig ==
    /\ GenInit
    /\ AttrIdle
    /\ config \in Configurations
    /\ error = None
    /\ np_random = None
    /\ outputs = << >>

\* the exception leaves generate_all: the run is over
Raise(step, exception) ==
    /\ pc' = "failed"
    /\ error' = [raised_in |-> step, exception |-> exception]

\* self.brands_df = self.generate_brands()
run_generate_brands ==
    /\ pc = "generate_brands"
    /\ IF ChoiceRaises(config.BRAND_TIERS)
       THEN /\ Raise("generate_brands", "ValueError")
            /\ UNCHANGED <<brands_df, uuids>>
       ELSE /\ brands_df' = [i \in 1..config.N_BRANDS |-> [brand_id |-> uuid4(uuids, i)]]
            /\ uuids' = uuids + config.N_BRANDS
            /\ pc' = "generate_influencers"
            /\ UNCHANGED error
    /\ UNCHANGED <<rows, influencers_df, posts_df, conversions_df, touchpoints_df, saved>>
    /\ UNCHANGED <<attr_vars, config, np_random, outputs>>

\* self.influencers_df = self.generate_influencers(); a follower range with
\* low >= high raises nothing: np.random.uniform takes its bounds in any order
run_generate_influencers ==
    /\ pc = "generate_influencers"
    /\ IF ChoiceRaises(config.TIER_DISTRIBUTION)
       THEN /\ Raise("generate_influencers", "ValueError")
            /\ UNCHANGED <<influencers_df, uuids>>
       ELSE /\ influencers_df' =
                  [i \in 1..config.N_INFLUENCERS |-> [influencer_id |-> uuid4(uuids, i)]]
            /\ uuids' = uuids + config.N_INFLUENCERS
            /\ pc' = "generate_posts"
            /\ UNCHANGED error
    /\ UNCHANGED <<rows, brands_df, posts_df, conversions_df, touchpoints_df, saved>>
    /\ UNCHANGED <<attr_vars, config, np_random, outputs>>

\* self.posts_df = self.generate_posts()
run_generate_posts ==
    /\ pc = "generate_posts"
    /\ IF ColumnRaises(influencers_df) \/ ColumnRaises(brands_df)
       THEN /\ Raise("generate_posts", "KeyError")
            /\ UNCHANGED <<posts_df, uuids>>
       ELSE /\ posts_df' = [i \in 1..config.N_POSTS |-> [post_id |-> uuid4(uuids, i)]]
            /\ uuids' = uuids + config.N_POSTS
            /\ pc' = "generate_conversions"
            /\ UNCHANGED error
    /\ UNCHANGED <<rows, brands_df, influencers_df, conversions_df, touchpoints_df, saved>>
    /\ UNCHANGED <<attr_vars, config, np_random, outputs>>

\* self.conversions_df = self.generate_conversions()
run_generate_conversions ==
    /\ pc = "generate_conversions"
    /\ IF ColumnRaises(posts_df)
       THEN /\ Raise("generate_conversions", "KeyError")
            /\ UNCHANGED <<conversions_df, uuids>>
       ELSE /\ conversions_df' =
                  [i \in 1..N_CONVERSIONS |-> [conversion_id |-> uuid4(uuids, i)]]
            /\ uuids' = uuids + N_CONVERSIONS
            /\ pc' = "generate_touchpoints"
            /\ UNCHANGED error
    /\ UNCHANGED <<rows, brands_df, influencers_df, posts_df, touchpoints_df, saved>>
    /\ UNCHANGED <<attr_vars, config, np_random, outputs>>

\* self.touchpoints_df = self.generate_touchpoints()
run_generate_touchpoints ==
    /\ pc = "generate_touchpoints"
    /\ IF ColumnRaises(conversions_df)
       THEN /\ Raise("generate_touchpoints", "KeyError")
            /\ UNCHANGED <<touchpoints_df, uuids>>
       ELSE /\ touchpoints_df' =
                  [i \in 1..N_TOUCHPOINTS |-> [touchpoint_id |-> uuid4(uuids, i)]]
            /\ uuids' = uuids + N_TOUCHPOINTS
            /\ pc' = "save_all"
            /\ UNCHANGED error
    /\ UNCHANGED <<rows, brands_df, influencers_df, posts_df, conversions_df, saved>>
    /\ UNCHANGED <<attr_vars, config, np_random, outputs>>

NextConfig ==
    \/ run_generate_brands
    \/ run_generate_influencers
    \/ run_generate_posts
    \/ run_generate_conversions
    \/ run_generate_touchpoints
    \/ save_all

SpecConfig == InitConfig /\ [][NextConfig]_vars

\* some categorical distribution does not sum to 1, some tier range has
\* low >= high, or some dataset size is not positive
Malformed(cfg) ==
    \/ SumInts(cfg.BRAND_TIERS) # 100
    \/ SumInts(cfg.TIER_DISTRIBUTION) # 100
    \/ cfg.TIER_FOLLOWER_RANGES_nano[1] >= cfg.TIER_FOLLOWER_RANGES_nano[2]
    \/ cfg.N_BRANDS <= 0
    \/ cfg.N_INFLUENCERS <= 0
    \/ cfg.N_POSTS <= 0

\* C17 as claimed: whenever the configuration is malformed, the run is
\* aborted with an error before the first table (brands) is built: it
\* never gets past generate_brands, and an error it ends with was raised
\* there.
C17_MalformedAbortsBeforeBrands ==
    Malformed(config) =>
        \/ pc = "generate_brands"
        \/ pc = "failed" /\ error.raised_in = "generate_brands"

----------------------------------------------------------------------------
(* SpecSave: generate_all(save=True) where a to_csv call of save_all can   *)
(* raise (disk full, directory not writable, interrupt).                   *)

\* the files of save_all, in the order it writes them
CsvFiles == <<"brands.csv", "influencers.csv", "posts.csv", "conversions.csv",
              "touchpoints.csv">>

\* save_all: the to_csv calls run one after the other; the call that raises
\* ends the run, the files written by the calls before it stay
save_all_to_csv ==
    /\ pc = "save_all"
    /\ \E written \in 0..Len(CsvFiles) :
         /\ saved' = {CsvFiles[k] : k \in 1..written}
         /\ IF written = Len(CsvFiles)
            THEN pc' = "done" /\ UNCHANGED error
            ELSE Raise("save_all", "OSError")
    /\ UNCHANGED <<rows, brands_df, influencers_df, posts_df, conversions_df,
                   touchpoints_df, uuids>>
    /\ UNCHANGED <<attr_vars, config, np_random, outputs>>

NextSave ==
    \/ generate_brands
    \/ generate_influencers
    \/ generate_posts
    \/ generate_conversions
    \/ generate_touchpoints
    \/ save_all_to_csv

SpecSave == Init /\ [][NextSave]_vars

\* C18 as claimed: a generate_all(save=True) run ends with all five table
\* files persisted, or it fails and none of them is persisted; a failure
\* during save_all never leaves only some of the five files written.
C18_AllOrNothingSaved ==
    /\ pc = "done" => saved = {CsvFiles[k] : k \in 1..Len(CsvFiles)}
    /\ pc = "failed" => saved = {}

----------------------------------------------------------------------------
(* SpecLabels: generate_conversions, with the attribution_type column,     *)
(* generate_touchpoints and save_all.  It starts where generate_posts has  *)
(* returned, in the state Spec reaches when every post is sponsored, by    *)
(* the first influencer for the first brand, on the first day.             *)

\* the labels np.random.choice draws attribution_type from
AttributionTypes == {"first_touch", "last_touch", "linear", "time_decay", "position_based"}

\* one iteration of the loop of generate_conversions, with attribution_type
generate_conversions_labels ==
    /\ pc = "generate_conversions"
    /\ Len(rows) < N_CONVERSIONS
    /\ \E has_attribution \in BOOLEAN :
       \E row \in ConversionDraws[has_attribution] :
       \E attribution_type \in AttributionTypes :
         LET conversions == Append(rows, row @@ [attribution_type |-> attribution_type])
         IN  IF Len(conversions) = N_CONVERSIONS
             THEN /\ conversions_df' = conversions
                  /\ rows' = << >>
                  /\ pc' = "generate_touchpoints"
             ELSE /\ rows' = conversions
                  /\ UNCHANGED <<conversions_df, pc>>
    /\ uuids' = uuids + 2
    /\ UNCHANGED <<brands_df, influencers_df, posts_df, touchpoints_df, saved>>
    /\ UNCHANGED <<attr_vars, run_vars>>

InitLabels ==
    /\ pc = "generate_conversions"
    /\ rows = << >>
    /\ brands_df = [i \in 1..N_BRANDS |-> [brand_id |-> uuid4(0, i)]]
    /\ influencers_df =
          [i \in 1..N_INFLUENCERS |-> [influencer_id |-> uuid4(N_BRANDS, i)]]
    /\ posts_df =
          [i \in 1..N_POSTS |->
             [post_id |-> uuid4(N_BRANDS + N_INFLUENCERS, i),
              influencer_id |-> uuid4(N_BRANDS, 1),
              brand_id |-> uuid4(0, 1),
              post_date |-> DATE_START,
              is_sponsored |-> TRUE]]
    /\ conversions_df = None
    /\ touchpoints_df = None
    /\ saved = {}
    /\ uuids = N_BRANDS + N_INFLUENCERS + N_POSTS
    /\ AttrIdle
    /\ RunIdle

NextLabels ==
    \/ generate_conversions_labels
    \/ generate_touchpoints
    \/ save_all

SpecLabels == InitLabels /\ [][NextLabels]_vars

\* the conversions table of a run that differs only in the attribution_type
\* drawn for one conversion
Relabelled(conversions, conversion_id, attribution_type) ==
    [k \in 1..Len(conversions) |->
       IF conversions[k].conversion_id = conversion_id
       THEN [conversions[k] EXCEPT !.attribution_type = attribution_type]
       ELSE conversions[k]]

\* C20: the attribution_weight of a touchpoint does not depend on the
\* attribution_type of the conversion it is linked to: a run that differs
\* only in the attribution_type drawn for that conversion can produce the
\* same touchpoint for it, with the same weight; and the weight is in
\* [0.05, 0.40] whenever contributed_to_conversion is true.
C20_WeightIgnoresAttributionType ==
    \A i \in 1..Len(TouchpointRows) :
        LET t == TouchpointRows[i]
        IN  /\ t.contributed_to_conversion =>
                  /\ AttributionWeightLow <= t.attribution_weight
                  /\ t.attribution_weight <= AttributionWeightHigh
            /\ t.conversion_id # None =>
                  \A attribution_type \in AttributionTypes :
                      \E d \in TouchpointDrawsFrom(WithPosts(
                                  Relabelled(conversions_df, t.conversion_id,
                                             attribution_type)))[TRUE] :
                          /\ d.row.conversion_id = t.conversion_id
                          /\ d.row.post_id = t.post_id
                          /\ d.row.touchpoint_date = t.touchpoint_date
                          /\ d.row.attribution_weight = t.attribution_weight

\* a touchpoint with the largest weight, linked to a first_touch conversion
C20_Witness ==
    /\ pc = "done"
    /\ \E i \in 1..Len(touchpoints_df) :
          LET t == touchpoints_df[i]
          IN  /\ t.conversion_id # None
              /\ t.contributed_to_conversion
              /\ t.attribution_weight = AttributionWeightHigh
              /\ ConversionOf(t.conversion_id).attribution_type = "first_touch"

----------------------------------------------------------------------------
(* SpecEngagement: generate_posts with the engagement columns.  Rates are  *)
(* in hundredths: an engagement_rate of 1200 is 12.0 (percent), a variance *)
(* of 130 is 1.3.  It starts in the last iteration of the loop of          *)
(* generate_posts: the rows before it are rows the loop appends when every *)
(* draw returns the low end of its range.  np_random records the value     *)
(* generate_outlier_probability returned in each iteration.  int() of a    *)
(* product is the floor of the exact product: the follower counts and      *)
(* rates explored are ones for which the float product has the same floor. *)

\* config.MONTHLY_SEASONALITY
MONTHLY_SEASONALITY == <<85, 90, 95, 100, 95, 85, 80, 90, 105, 110, 120, 125>>

\* distributions.generate_outlier_probability: the values it can return
generate_outlier_probability == {30, 300, 500} \cup {100}

\* np.random.uniform(low, high): the draws explored are both ends
uniform(low, high) == {low, high}

\* distributions.generate_engagement_metrics, `engagement_rate` being the
\* product of the influencer's rate and the seasonality, both in hundredths;
\* `scale` is what the variance is multiplied by (1.0 unless is_viral)
EngagementMetrics(followers, engagement_rate, content_type, scales) ==
    LET base_engagement == (followers * engagement_rate) \div 1000000
        save_rates == IF content_type \in {"product_shot", "carousel"}
                      THEN uniform(3, 6) ELSE uniform(2, 4)
        Metrics(variance, scale, like_share, comment_rate, share_rate, save_rate) ==
            LET total_engagement == (base_engagement * variance * scale) \div 10000
                likes == (total_engagement * like_share) \div 100
            IN  [likes |-> Max(1, likes),
                 comments |-> Max(0, (likes * comment_rate) \div 100),
                 shares |-> Max(0, (likes * share_rate) \div 1000),
                 saves |-> Max(0, (likes * save_rate) \div 100)]
    IN  {Metrics(variance, scale, like_share, comment_rate, share_rate, save_rate) :
           variance \in uniform(70, 130), scale \in scales,
           like_share \in uniform(85, 92), comment_rate \in uniform(3, 8),
           share_rate \in uniform(10, 25), save_rate \in save_rates}

\* distributions.generate_engagement_metrics
generate_engagement_metrics(followers, engagement_rate, content_type, is_viral) ==
    EngagementMetrics(followers, engagement_rate, content_type,
                      IF is_viral THEN uniform(300, 1000) ELSE {100})

\* mutant: the boost of a high engagement rate is 3.0
ReachBoostTripled(engagement_rate) ==
    IF engagement_rate > 500 THEN 30 ELSE IF engagement_rate > 300 THEN 11 ELSE 10

\* generate_reach_impressions: what reach_rate is multiplied by, in tenths
ReachBoost(engagement_rate) ==
    IF engagement_rate > 500 THEN 13 ELSE IF engagement_rate > 300 THEN 11 ELSE 10

\* distributions.generate_reach_impressions: the pairs (reach, impressions)
generate_reach_impressions(followers, engagement_rate) ==
    {LET reach == (followers * reach_rate * ReachBoost(engagement_rate)) \div 1000
     IN  <<reach, (reach * impression_multiplier) \div 100>> :
       reach_rate \in uniform(20, 40), impression_multiplier \in uniform(120, 180)}

\* config.CONTENT_TYPE_BY_PLATFORM: the content types of a platform
CONTENT_TYPE_BY_PLATFORM ==
    [Instagram |-> {"photo", "carousel", "reel", "story"},
     TikTok |-> {"video", "photo"}]

\* inf_lookup[inf_id]
inf_lookup(inf_id) ==
    influencers_df[CHOOSE i \in 1..Len(influencers_df) :
                     influencers_df[i].influencer_id = inf_id]

\* post_date.month
Month(date) == date[2]

\* one iteration of the loop of generate_posts, with the engagement columns
generate_posts_engagement ==
    /\ pc = "generate_posts"
    /\ Len(rows) < N_POSTS
    /\ \E inf_id \in Column(influencers_df, "influencer_id"),
          random_days \in randint(0, date_range),
          is_sponsored \in BOOLEAN,
          outlier_mult \in generate_outlier_probability :
         LET inf_data == inf_lookup(inf_id)
             post_date == strftime(strptime(DATE_START) + random_days)
         IN  \E content_type \in CONTENT_TYPE_BY_PLATFORM[inf_data.platform],
                brand_id \in PostBrandChoices(is_sponsored, Column(brands_df, "brand_id")) :
             \E base_engagement \in
                    generate_engagement_metrics(
                        inf_data.follower_count,
                        inf_data.engagement_rate * MONTHLY_SEASONALITY[Month(post_date)],
                        content_type, outlier_mult > 200),
                reach_impressions \in
                    generate_reach_impressions(inf_data.follower_count,
                                               inf_data.engagement_rate) :
               LET posts == Append(rows,
                              [post_id |-> uuid4(uuids, 1),
                               influencer_id |-> inf_id,
                               brand_id |-> brand_id,
                               post_date |-> post_date,
                               content_type |-> content_type,
                               is_sponsored |-> is_sponsored,
                               likes |-> base_engagement.likes,
                               comments |-> base_engagement.comments,
                               shares |-> base_engagement.shares,
                               saves |-> base_engagement.saves,
                               reach |-> reach_impressions[1],
                               impressions |-> reach_impressions[2]])
               IN  /\ np_random' = Append(np_random, outlier_mult)
                   /\ IF Len(posts) = N_POSTS
                      THEN /\ posts_df' = posts
                           /\ rows' = << >>
                           /\ pc' = "generate_conversions"
                      ELSE /\ rows' = posts
                           /\ UNCHANGED <<posts_df, pc>>
    /\ uuids' = uuids + 1
    /\ UNCHANGED <<brands_df, influencers_df, conversions_df, touchpoints_df, saved>>
    /\ UNCHANGED <<attr_vars, config, error, outputs>>

\* the row generate_influencers appends for the k-th influencer, with the
\* columns generate_posts reads
InfluencerProfile(k, platform, follower_count, engagement_rate) ==
    [influencer_id |-> uuid4(N_BRANDS, k),
     platform |-> platform,
     follower_count |-> follower_count,
     engagement_rate |-> engagement_rate]

\* the row the loop of generate_posts appends in iteration k when it picks
\* the first influencer, every draw returns the low end of its range and no
\* outlier is drawn
FirstPostDraw(k) ==
    LET inf_data == influencers_df[1]
        metrics == generate_engagement_metrics(
                       inf_data.follower_count,
                       inf_data.engagement_rate * MONTHLY_SEASONALITY[Month(DATE_START)],
                       "photo", FALSE)
        base_engagement ==
            CHOOSE e \in metrics :
                \A f \in metrics : /\ e.likes <= f.likes
                                   /\ e.comments <= f.comments
                                   /\ e.shares <= f.shares
                                   /\ e.saves <= f.saves
        pairs == generate_reach_impressions(inf_data.follower_count,
                                            inf_data.engagement_rate)
        reach_impressions ==
            CHOOSE r \in pairs : \A q \in pairs : r[1] <= q[1] /\ r[2] <= q[2]
    IN  [post_id |-> uuid4(N_BRANDS + N_INFLUENCERS, k),
         influencer_id |-> inf_data.influencer_id,
         brand_id |-> None,
         post_date |-> DATE_START,
         content_type |-> "photo",
         is_sponsored |-> FALSE,
         likes |-> base_engagement.likes,
         comments |-> base_engagement.comments,
         shares |-> base_engagement.shares,
         saves |-> base_engagement.saves,
         reach |-> reach_impressions[1],
         impressions |-> reach_impressions[2]]

InitEngagement ==
    /\ pc = "generate_posts"
    /\ brands_df = [i \in 1..N_BRANDS |-> [brand_id |-> uuid4(0, i)]]
    /\ \E platform \in {"Instagram", "TikTok"},
          follower_count \in {IntExpLog(1000), 9999},
          engagement_rate \in {50, 400, 1200} :
          influencers_df =
            [k \in 1..N_INFLUENCERS |->
               IF k = 1
               THEN InfluencerProfile(k, platform, follower_count, engagement_rate)
               ELSE InfluencerProfile(k, "Instagram", 9999, 1200)]
    /\ rows = [k \in 1..(N_POSTS - 1) |-> FirstPostDraw(k)]
    /\ posts_df = None
    /\ conversions_df = None
    /\ touchpoints_df = None
    /\ saved = {}
    /\ uuids = N_BRANDS + N_INFLUENCERS + (N_POSTS - 1)
    /\ AttrIdle
    /\ config = None
    /\ error = None
    /\ np_random = [k \in 1..(N_POSTS - 1) |-> 100]
    /\ outputs = << >>

NextEngagement == generate_posts_engagement

SpecEngagement == InitEngagement /\ [][NextEngagement]_vars

\* the likes generate_engagement_metrics can return for the post when no
\* outlier is drawn
NonOutlierLikes(post) ==
    LET inf_data == inf_lookup(post.influencer_id)
    IN  {e.likes : e \in generate_engagement_metrics(
                            inf_data.follower_count,
                            inf_data.engagement_rate
                                * MONTHLY_SEASONALITY[Month(post.post_date)],
                            post.content_type, FALSE)}

\* the likes of the post when its engagement is scaled by outlier_mult
LikesScaledBy(post, outlier_mult) ==
    LET inf_data == inf_lookup(post.influencer_id)
    IN  {e.likes : e \in EngagementMetrics(
                            inf_data.follower_count,
                            inf_data.engagement_rate
                                * MONTHLY_SEASONALITY[Month(post.post_date)],
                            post.content_type, {outlier_mult})}

\* C21: the outlier multiplier drawn for a post is applied to its
\* engagement: a draw of 0.3 puts the post's likes below every value the
\* likes take without an outlier, and a draw of 3.0 or 5.0 scales the
\* engagement by that multiplier.
C21_OutlierMultiplierApplied ==
    \A i \in 1..Len(PostRows) :
        LET post == PostRows[i]
            outlier_mult == np_random[i]
        IN  /\ outlier_mult = 30 =>
                \A likes \in NonOutlierLikes(post) : post.likes < likes
            /\ outlier_mult \in {300, 500} =>
                post.likes \in LikesScaledBy(post, outlier_mult)

\* C22: every post row has likes >= 1, comments, shares and saves between 0
\* and likes, reach at most the follower_count of its influencer, and
\* impressions at least reach.
C22_PostMetricsBounds ==
    \A i \in 1..Len(PostRows) :
        LET post == PostRows[i]
        IN  /\ post.likes >= 1
            /\ 0 <= post.comments /\ post.comments <= post.likes
            /\ 0 <= post.shares /\ post.shares <= post.likes
            /\ 0 <= post.saves /\ post.saves <= post.likes
            /\ post.reach <= inf_lookup(post.influencer_id).follower_count
            /\ post.impressions >= post.reach

\* generate_posts has returned a post whose reach, boosted by a high
\* engagement rate, is more than half of the followers, and one whose
\* comments, shares and saves are all positive
C22_Witness ==
    /\ pc = "generate_conversions"
    /\ \E i \in 1..Len(posts_df) :
          posts_df[i].reach * 2 > inf_lookup(posts_df[i].influencer_id).follower_count
    /\ \E i \in 1..Len(posts_df) :
          /\ posts_df[i].comments > 0
          /\ posts_df[i].shares > 0
          /\ posts_df[i].saves > 0

----------------------------------------------------------------------------
(* Properties of the conversions' post, checked under SpecOrders *)

\* C23: every conversion row with a non-null post_id references a post that
\* is sponsored, and carries that post's influencer_id and brand_id, both
\* non-null.
C23_ConversionCarriesSponsoredPost ==
    \A i \in 1..Len(ConversionRows) :
        LET c == ConversionRows[i]
        IN  c.post_id # None =>
              /\ c.post_id \in Ids(posts_df, "post_id")
              /\ PostOf(c.post_id).is_sponsored
              /\ c.influencer_id = PostOf(c.post_id).influencer_id
              /\ c.brand_id = PostOf(c.post_id).brand_id
              /\ c.influencer_id # None
              /\ c.brand_id # None

\* generate_conversions has returned a conversion attributed to a sponsored
\* post, with the brand of that post
C23_Witness ==
    /\ pc = "generate_touchpoints"
    /\ \E i \in 1..Len(conversions_df) :
          /\ conversions_df[i].post_id # None
          /\ PostOf(conversions_df[i].post_id).is_sponsored
          /\ conversions_df[i].brand_id = PostOf(conversions_df[i].post_id).brand_id

----------------------------------------------------------------------------
(* SpecPlatforms: the touchpoints with their platform column, as built by  *)
(* SyntheticDataGenerator.generate_touchpoints and as built by the loop of *)
(* the script generate_all_data.py, which writes the same touchpoints.csv. *)
(* config records which of the two programs runs.  It starts where the     *)
(* conversions table has been built: every post is sponsored, by the first *)
(* influencer for the first brand, and the first conversion is attributed  *)
(* to the first post.                                                      *)

Programs == {"src/data_generator.py", "generate_all_data.py"}

\* list(config.PLATFORM_DISTRIBUTION.keys())
Platforms == {"Instagram", "TikTok", "YouTube", "Twitter"}

\* generate_touchpoints, lines 347-352: the platform of a touchpoint row
TouchpointPlatforms(post_id) ==
    IF post_id # None
    THEN LET post_platform == {posts_df[k].platform :
                                 k \in {j \in 1..Len(posts_df) :
                                          posts_df[j].post_id = post_id}}
         IN  IF post_platform # {} THEN post_platform ELSE Platforms
    ELSE Platforms \cup {"Website"}

\* generate_all_data.py, line 224: the platform of a touchpoint row
ScriptTouchpointPlatforms(post_id) == Platforms \cup {"Website"}

\* one iteration of a touchpoints loop that draws the platform from
\* `platforms`
AppendTouchpoint(platforms(_)) ==
    /\ pc = "generate_touchpoints"
    /\ Len(rows) < N_TOUCHPOINTS
    /\ \E leads_to_conversion \in BOOLEAN :
       \E t \in TouchpointDraws[leads_to_conversion] :
       \E platform \in platforms(t.row.post_id) :
         LET touchpoints == Append(rows, t.row @@ [platform |-> platform])
         IN  /\ uuids' = uuids + t.issued
             /\ IF Len(touchpoints) = N_TOUCHPOINTS
                THEN /\ touchpoints_df' = touchpoints
                     /\ rows' = << >>
                     /\ pc' = "save_all"
                ELSE /\ rows' = touchpoints
                     /\ UNCHANGED <<touchpoints_df, pc>>
    /\ UNCHANGED <<brands_df, influencers_df, posts_df, conversions_df, saved>>
    /\ UNCHANGED <<attr_vars, run_vars>>

\* one iteration of the loop of generate_touchpoints, with the platform
generate_touchpoints_platform ==
    /\ config = "src/data_generator.py"
    /\ AppendTouchpoint(TouchpointPlatforms)

\* one iteration of the touchpoints loop of generate_all_data.py
script_touchpoints ==
    /\ config = "generate_all_data.py"
    /\ AppendTouchpoint(ScriptTouchpointPlatforms)

InitPlatforms ==
    /\ pc = "generate_touchpoints"
    /\ rows = << >>
    /\ config \in Programs
    /\ brands_df = [i \in 1..N_BRANDS |-> [brand_id |-> uuid4(0, i)]]
    /\ \E platform \in Platforms :
         /\ influencers_df =
              [i \in 1..N_INFLUENCERS |->
                 [influencer_id |-> uuid4(N_BRANDS, i), platform |-> platform]]
         /\ posts_df =
              [i \in 1..N_POSTS |->
                 [post_id |-> uuid4(N_BRANDS + N_INFLUENCERS, i),
                  influencer_id |-> uuid4(N_BRANDS, 1),
                  brand_id |-> uuid4(0, 1),
                  platform |-> platform,
                  post_date |-> DATE_START,
                  is_sponsored |-> TRUE]]
    /\ conversions_df =
          [i \in 1..N_CONVERSIONS |->
             LET issued == N_BRANDS + N_INFLUENCERS + N_POSTS + 2 * (i - 1)
             IN  [conversion_id |-> uuid4(issued, 1),
                  customer_id |-> uuid4(issued, 2),
                  post_id |-> IF i = 1 THEN posts_df[1].post_id ELSE None,
                  influencer_id |-> IF i = 1 THEN posts_df[1].influencer_id ELSE None,
                  brand_id |-> uuid4(0, 1),
                  conversion_date |->
                      strftime(strptime(DATE_START) + (IF i = 1 THEN JourneyMin ELSE 0)),
                  customer_journey_length |-> JourneyMin]]
    /\ touchpoints_df = None
    /\ saved = {}
    /\ uuids = N_BRANDS + N_INFLUENCERS + N_POSTS + 2 * N_CONVERSIONS
    /\ AttrIdle
    /\ error = None
    /\ np_random = None
    /\ outputs = << >>

NextPlatforms ==
    \/ generate_touchpoints_platform
    \/ script_touchpoints
    \/ save_all

SpecPlatforms == InitPlatforms /\ [][NextPlatforms]_vars

\* C24: every touchpoint row with a non-null post_id has the platform of the
\* post it references, and so never "Website".
C24_PlatformOfPost ==
    \A i \in 1..Len(TouchpointRows) :
        LET t == TouchpointRows[i]
        IN  t.post_id # None =>
              /\ t.platform = PostOf(t.post_id).platform
              /\ t.platform # "Website"

----------------------------------------------------------------------------
(* SpecValidator: DataValidator.run_all_checks on a raw data directory     *)
(* that holds any subset of the five tables' files.  saved is the set of   *)
(* files in the directory; outputs holds the validator's datasets (the     *)
(* names loaded), its validation_results and the verdict it returns.       *)
(* Whether a correlation or a reference check comes out valid depends on   *)
(* the data: both outcomes are explored.                                   *)

\* load_data: files
DatasetNames == {"brands", "influencers", "posts", "conversions", "touchpoints"}

\* self.data_dir / f"{name}.csv"
Filepath(name) ==
    CHOOSE f \in {CsvFiles[k] : k \in 1..Len(CsvFiles)} :
        \/ name = "brands" /\ f = "brands.csv"
        \/ name = "influencers" /\ f = "influencers.csv"
        \/ name = "posts" /\ f = "posts.csv"
        \/ name = "conversions" /\ f = "conversions.csv"
        \/ name = "touchpoints" /\ f = "touchpoints.csv"

\* the keys check_correlations fills in, by the dataset each is guarded on
CorrelationKeys(datasets) ==
    (IF "influencers" \in datasets
     THEN {"followers_engagement", "followers_cost", "tier_authenticity"} ELSE {})
    \cup (IF "posts" \in datasets THEN {"likes_comments", "saves_likes"} ELSE {})

\* the keys check_referential_integrity fills in
IntegrityKeys(datasets) ==
    (IF {"posts", "influencers"} \subseteq datasets THEN {"posts_influencers"} ELSE {})
    \cup (IF {"posts", "brands"} \subseteq datasets THEN {"posts_brands"} ELSE {})
    \cup (IF {"conversions", "posts"} \subseteq datasets THEN {"conversions_posts"} ELSE {})

\* the validator moves from `step` to `next`, recording `results` under
\* validation_results[group]
Check(step, next, group, results) ==
    /\ pc = step
    /\ pc' = next
    /\ outputs' = [outputs EXCEPT !.validation_results =
                       (group :> results) @@ outputs.validation_results]
    /\ UNCHANGED <<rows, brands_df, influencers_df, posts_df, conversions_df,
                   touchpoints_df, saved, uuids>>
    /\ UNCHANGED <<attr_vars, config, error, np_random>>

\* load_data: a file that does not exist is reported and skipped
load_data ==
    /\ pc = "load_data"
    /\ pc' = "check_distributions"
    /\ outputs' = [outputs EXCEPT !.datasets =
                       {name \in DatasetNames : Filepath(name) \in saved}]
    /\ UNCHANGED <<rows, brands_df, influencers_df, posts_df, conversions_df,
                   touchpoints_df, saved, uuids>>
    /\ UNCHANGED <<attr_vars, config, error, np_random>>

check_distributions ==
    Check("check_distributions", "check_correlations", "distributions",
          outputs.datasets \cap {"influencers", "posts"})

check_correlations ==
    \E valid \in [CorrelationKeys(outputs.datasets) -> BOOLEAN] :
        Check("check_correlations", "check_bias", "correlations", valid)

check_bias ==
    Check("check_bias", "check_data_quality", "bias",
          outputs.datasets \cap {"influencers", "conversions"})

check_data_quality ==
    Check("check_data_quality", "check_referential_integrity", "quality",
          outputs.datasets)

check_referential_integrity ==
    \E valid \in [IntegrityKeys(outputs.datasets) -> BOOLEAN] :
        Check("check_referential_integrity", "generate_report",
              "referential_integrity", valid)

\* generate_report: PASS when every counted check passed, none counted included
generate_report ==
    /\ pc = "generate_report"
    /\ LET correlations == outputs.validation_results["correlations"]
           referential_integrity == outputs.validation_results["referential_integrity"]
           total_checks == Cardinality(DOMAIN correlations)
                             + Cardinality(DOMAIN referential_integrity)
           passed_checks ==
               Cardinality({key \in DOMAIN correlations : correlations[key]})
                 + Cardinality({key \in DOMAIN referential_integrity :
                                  referential_integrity[key]})
       IN  outputs' = [outputs EXCEPT !.report =
                          IF passed_checks = total_checks THEN "PASS" ELSE "REVIEW"]
    /\ pc' = "returned"
    /\ UNCHANGED <<rows, brands_df, influencers_df, posts_df, conversions_df,
                   touchpoints_df, saved, uuids>>
    /\ UNCHANGED <<attr_vars, config, error, np_random>>

\* DataValidator(): no dataset, no result
InitValidator ==
    /\ pc = "load_data"
    /\ rows = << >>
    /\ brands_df = None
    /\ influencers_df = None
    /\ posts_df = None
    /\ conversions_df = None
    /\ touchpoints_df = None
    /\ saved \in SUBSET {CsvFiles[k] : k \in 1..Len(CsvFiles)}
    /\ uuids = 0
    /\ AttrIdle
    /\ config = None
    /\ error = None
    /\ np_random = None
    /\ outputs = [datasets |-> {}, validation_results |-> << >>, report |-> None]

NextValidator ==
    \/ load_data
    \/ check_distributions
    \/ check_correlations
    \/ check_bias
    \/ check_data_quality
    \/ check_referential_integrity
    \/ generate_report

\* run_all_checks
SpecValidator == InitValidator /\ [][NextValidator]_vars

\* C25: when a base table file is missing from the raw data directory,
\* run_all_checks stops in load_data with an error that names the missing
\* path: it runs no check and returns no verdict.
C25_MissingTableStops ==
    \A name \in DatasetNames :
        Filepath(name) \notin saved =>
          /\ pc \in {"load_data", "failed"}
          /\ pc = "failed" => error = <<"FileNotFoundError", Filepath(name)>>
          /\ outputs.report = None

----------------------------------------------------------------------------
(* The order of generate_all, checked under SpecKeys *)

\* the tables a step starts from have been built
BuiltInOrder ==
    /\ (pc = "generate_posts" \/ posts_df # None) =>
          brands_df # None /\ influencers_df # None
    /\ (pc = "generate_conversions" \/ conversions_df # None) =>
          posts_df # None /\ brands_df # None
    /\ (pc = "generate_touchpoints" \/ touchpoints_df # None) =>
          conversions_df # None /\ posts_df # None
    /\ (pc \in {"save_all", "done"} \/ saved # {}) =>
          /\ brands_df # None
          /\ influencers_df # None
          /\ posts_df # None
          /\ conversions_df # None
          /\ touchpoints_df # None

\* a step leaves every table that has been built as it is
BuiltTablesKept ==
    /\ brands_df # None => brands_df' = brands_df
    /\ influencers_df # None => influencers_df' = influencers_df
    /\ posts_df # None => posts_df' = posts_df
    /\ conversions_df # None => conversions_df' = conversions_df
    /\ touchpoints_df # None => touchpoints_df' = touchpoints_df

\* C26: generate_all builds the tables in the order brands, influencers,
\* posts, conversions, touchpoints: posts are generated only after brands
\* and influencers exist, conversions only after posts and brands,
\* touchpoints only after conversions and posts, save_all runs only after
\* all five exist; and once built, a table is never changed.
C26_FixedOrderTablesKept == []BuiltInOrder /\ [][BuiltTablesKept]_vars

\* generate_all has returned: the five tables are built and saved
C26_Witness ==
    /\ pc = "done"
    /\ Len(brands_df) = N_BRANDS
    /\ Len(influencers_df) = N_INFLUENCERS
    /\ Len(posts_df) = N_POSTS
    /\ Len(conversions_df) = N_CONVERSIONS
    /\ Len(touchpoints_df) = N_TOUCHPOINTS
    /\ saved = {CsvFiles[k] : k \in 1..Len(CsvFiles)}

----------------------------------------------------------------------------
(* The range of the scores, checked under SpecScores *)

\* the columns generate_scores.py scales, as it computes them from the raw
\* tables
ScaledColumns ==
    [engagement_quality_score |->
        [j \in 1..Len(influencers_df) |-> engagement_quality(influencers_df[j], posts_df)],
     conversion_score |->
        [j \in 1..Len(influencers_df) |->
            conversion_rate(influencers_df[j], posts_df, conversions_df)],
     roi_score |->
        [j \in 1..Len(influencers_df) |->
            roi_capped(influencers_df[j], posts_df, conversions_df)]]

\* C27: for every influencer of the score table, engagement_quality_score,
\* conversion_score and roi_score are in [0, 100], the smallest value of a
\* column being mapped to 0 and the largest to 100 when they differ; roi is
\* within [-1, 10] before it is scaled; and influencer_score is in [0, 100].
\* Influencers without posts are included.
C27_ScoresWithinRange ==
    \A k \in 1..Len(outputs) : \A i \in 1..Len(outputs[k]) :
        LET o == outputs[k][i]
            InRange(x) == LessEq(Float(0), x) /\ LessEq(x, Float(100))
            Ends(name) ==
                LET column == ScaledColumns[name]
                IN  \A j \in 1..Len(column) :
                      /\ Less(column[i], column[j]) /\ (\A l \in 1..Len(column) :
                             LessEq(column[i], column[l])) => o[name] = Float(0)
                      /\ Less(column[j], column[i]) /\ (\A l \in 1..Len(column) :
                             LessEq(column[l], column[i])) => o[name] = Float(100)
        IN  /\ InRange(o.engagement_quality_score) /\ Ends("engagement_quality_score")
            /\ InRange(o.conversion_score) /\ Ends("conversion_score")
            /\ InRange(o.roi_score) /\ Ends("roi_score")
            /\ LessEq(Float(0 - 1), ScaledColumns.roi_score[i])
            /\ LessEq(ScaledColumns.roi_score[i], Float(10))
            /\ InRange(o.influencer_score)


----------------------------------------------------------------------------
(* SpecDates: generate_all with journeys that outlast the window.  The     *)
(* draws of int(np.random.exponential(7)) explored here reach four days,   *)
(* twice the length of the window, as the shipped draws (mean seven days,  *)
(* clipped to 90) outlast the days left after a post late in the window.   *)

\* int(np.random.exponential(7)): draws of no, two and four days
ExponentialDrawsLong == {0, 2, 4}

\* distributions.generate_customer_journey_length over ExponentialDrawsLong
JourneyLengths ==
    {Clip(length, JourneyMin, JourneyMax) : length \in ExponentialDrawsLong}

\* one iteration of the loop of generate_conversions, the journey drawn from
\* JourneyLengths
generate_conversions_journeys ==
    /\ pc = "generate_conversions"
    /\ Len(rows) < N_CONVERSIONS
    /\ \E has_attribution \in BOOLEAN :
       \E journey_length \in JourneyLengths :
       \E k \in 1..Max(1, Len(sponsored_posts)) :
       \E brand_id \in Column(brands_df, "brand_id") :
       \E random_days \in randint(0, date_range) :
         LET attributed == has_attribution /\ Len(sponsored_posts) > 0
             post == sponsored_posts[k]
             conversion_date ==
                 IF attributed
                 THEN AttributedConversionDate(strptime(post.post_date), journey_length,
                                               strptime(DATE_END))
                 ELSE strptime(DATE_START) + random_days
             row == [conversion_id |-> uuid4(uuids, 1),
                     customer_id |-> uuid4(uuids, 2),
                     post_id |-> IF attributed THEN post.post_id ELSE None,
                     influencer_id |-> IF attributed THEN post.influencer_id ELSE None,
                     brand_id |-> IF attributed THEN post.brand_id ELSE brand_id,
                     conversion_date |-> strftime(conversion_date),
                     customer_journey_length |-> journey_length]
             conversions == Append(rows, row)
         IN  IF Len(conversions) = N_CONVERSIONS
             THEN /\ conversions_df' = conversions
                  /\ rows' = << >>
                  /\ pc' = "generate_touchpoints"
             ELSE /\ rows' = conversions
                  /\ UNCHANGED <<conversions_df, pc>>
    /\ uuids' = uuids + 2
    /\ UNCHANGED <<brands_df, influencers_df, posts_df, touchpoints_df, saved>>
    /\ UNCHANGED <<attr_vars, run_vars>>

NextDates ==
    \/ generate_brands
    \/ generate_influencers
    \/ generate_posts
    \/ generate_conversions_journeys
    \/ generate_touchpoints
    \/ save_all

SpecDates == Init /\ [][NextDates]_vars

\* a date string of a table lies within [DATE_START, DATE_END]
InWindow(date) ==
    /\ strptime(DATE_START) <= strptime(date)
    /\ strptime(date) <= strptime(DATE_END)

\* C28: every post_date, every conversion_date and every touchpoint_date
\* produced by a generation run lies within the generation window
\* [DATE_START, DATE_END], for any configured window of at least one day
\* (here a window of two days).
C28_DatesWithinWindow ==
    /\ \A i \in 1..Len(PostRows) : InWindow(PostRows[i].post_date)
    /\ \A i \in 1..Len(ConversionRows) : InWindow(ConversionRows[i].conversion_date)
    /\ \A i \in 1..Len(TouchpointRows) : InWindow(TouchpointRows[i].touchpoint_date)

\* C29: every touchpoint linked to a conversion, which inherits that
\* conversion's post_id, has a touchpoint_date on or after the post_date of
\* that post, including when the conversion date was capped at the window's
\* end.
C29_LinkedNotBeforePost ==
    \A i \in 1..Len(TouchpointRows) :
        LET t == TouchpointRows[i]
        IN  t.conversion_id # None =>
              strptime(t.touchpoint_date) >= strptime(PostOf(t.post_id).post_date)

----------------------------------------------------------------------------
(* SpecMerged: generate_all(save=True), then the aggregation of            *)
(* generate_scores.py over the files it has written: the two groupby       *)
(* tables and the two left merges that make the rows of the score table.   *)

\* the float a left merge leaves where the right table has no row; it stands
\* apart from every count, which is 0 or more
NaN == 0 - 1

\* the distinct keys of a groupby, in ascending order
RECURSIVE SortedKeys(_)
SortedKeys(keys) ==
    IF keys = {} THEN << >>
    ELSE LET first == CHOOSE x \in keys : \A y \in keys : x[1] <= y[1]
         IN  <<first>> \o SortedKeys(keys \ {first})

\* posts.groupby('influencer_id').agg({'post_id': 'count', ..., 'is_sponsored': 'sum'})
inf_post_metrics(posts) ==
    LET keys == SortedKeys(Column(posts, "influencer_id"))
    IN  [k \in 1..Len(keys) |->
           [influencer_id |-> keys[k],
            total_posts |-> Len(PostsOf(posts, keys[k])),
            sponsored_posts |-> SponsoredCount(PostsOf(posts, keys[k]))]]

\* conversions[conversions['influencer_id'].notna()].groupby('influencer_id')
\*     .agg({'conversion_id': 'count', ...})
inf_conversions(conversions) ==
    LET keys == SortedKeys(Column(conversions, "influencer_id") \ {None})
    IN  [k \in 1..Len(keys) |->
           [influencer_id |-> keys[k],
            conversions |-> Len(ConversionsOf(conversions, keys[k]))]]

\* mutant: how='inner', a row of the left table without a match is dropped
RECURSIVE MergeInner(_, _, _)
MergeInner(left, right, missing) ==
    IF left = << >> THEN << >>
    ELSE LET matches ==
                 SelectSeq(right, LAMBDA r : r.influencer_id = Head(left).influencer_id)
         IN  [k \in 1..Len(matches) |-> Head(left) @@ matches[k]]
               \o MergeInner(Tail(left), right, missing)

\* left.merge(right, on='influencer_id', how='left'): a row for every match
\* of a row of the left table, and one with NaN columns when it has none
RECURSIVE Merge(_, _, _)
Merge(left, right, missing) ==
    IF left = << >> THEN << >>
    ELSE LET matches ==
                 SelectSeq(right, LAMBDA r : r.influencer_id = Head(left).influencer_id)
             joined == IF matches = << >> THEN <<Head(left) @@ missing>>
                       ELSE [k \in 1..Len(matches) |-> Head(left) @@ matches[k]]
         IN  joined \o Merge(Tail(left), right, missing)

\* Series.fillna(0)
fillna(x) == IF x = NaN THEN 0 ELSE x

\* sponsored_posts > 0 as np.where reads it: False for NaN
Positive(x) == x # NaN /\ x > 0

\* inf_data[output_cols]: the columns the two merges add to influencers.csv
MergedScores(influencers, posts, conversions) ==
    LET with_posts == Merge(influencers, inf_post_metrics(posts),
                            [total_posts |-> NaN, sponsored_posts |-> NaN])
        inf_data == Merge(with_posts, inf_conversions(conversions), [conversions |-> NaN])
    IN  [i \in 1..Len(inf_data) |->
           [inf_data[i] EXCEPT !.conversions = fillna(inf_data[i].conversions)]]

\* generate_scores.py, run on the files of data/raw that save_all has written
generate_scores_merged ==
    /\ pc = "done"
    /\ {"influencers.csv", "posts.csv", "conversions.csv"} \subseteq saved
    /\ outputs = << >>
    /\ outputs' = <<MergedScores(influencers_df, posts_df, conversions_df)>>
    /\ UNCHANGED <<pc, rows, brands_df, influencers_df, posts_df, conversions_df,
                   touchpoints_df, saved, uuids, config, error, np_random>>
    /\ UNCHANGED attr_vars

NextMerged ==
    \/ generate_brands
    \/ generate_influencers
    \/ generate_posts
    \/ generate_conversions
    \/ generate_touchpoints
    \/ save_all
    \/ generate_scores_merged

SpecMerged == Init /\ [][NextMerged]_vars

\* C30: in the score table built from the tables generate_all has produced,
\* every influencer with conversions > 0 has sponsored_posts > 0, so that the
\* conversion rate 0 of the sponsored_posts guard goes only to influencers
\* without attributed conversions; and every influencer of the influencer
\* table appears in the score table exactly once.
C30_ConversionsNeedSponsoredPosts ==
    \A k \in 1..Len(outputs) :
        LET scores == outputs[k]
        IN  /\ \A i \in 1..Len(scores) :
                  /\ scores[i].conversions > 0 => Positive(scores[i].sponsored_posts)
                  /\ ~Positive(scores[i].sponsored_posts) => scores[i].conversions = 0
            /\ \A j \in 1..Len(influencers_df) :
                  Cardinality({i \in 1..Len(scores) :
                                 scores[i].influencer_id = influencers_df[j].influencer_id}) = 1
            /\ Len(scores) = Len(influencers_df)

\* the score table of a run holds an influencer with a conversion
C30_Witness ==
    /\ Len(outputs) = 1
    /\ \E i \in 1..Len(outputs[1]) :
          /\ outputs[1][i].conversions > 0
          /\ outputs[1][i].sponsored_posts > 0
          /\ outputs[1][i].influencer_id \in Column(influencers_df, "influencer_id")

=============================================================================
